---------------------------- MODULE Spec2Model ----------------------------
(***************************************************************************)
(* P3DH ingestion: the mapping parser (annotated table layouts), the fact  *)
(* reader, the merge and the SQLite partition replace of ingest_p3dh.py.   *)
(*                                                                         *)
(* Text is a TLA+ string; Len, SubSeq, Head, Tail and \o act on strings    *)
(* character by character.  A spreadsheet cell is a string, the empty      *)
(* string standing for an empty cell (None): the code treats None and ""   *)
(* alike everywhere (truthiness tests, and `val is None` is followed by a  *)
(* regex that "" fails as well).  Row and column indices keep the source's *)
(* 0-based numbering; CellStr and RowAt translate to 1-based sequences.    *)
(***************************************************************************)
EXTENDS Integers, Sequences, FiniteSets, TLC

VARIABLES
    db,            \* the committed `facts` table, rows in rowid order
    pc,            \* pc[p]: where process p is in main / ingest_folder
    cur,           \* cur[p]: the folder p is ingesting (0: none)
    left,          \* left[p]: folders of the command line still to come
    txn,           \* txn[p]: the table as p's open transaction sees it
    pending,       \* pending[p]: rows_to_insert not yet executed
    lock,          \* the process holding SQLite's write lock (0: none)
    latest,        \* latest[k]: rows_to_insert of the last commit for key k
    lastIngested,  \* the folder of the most recent commit (0: none)
    log,           \* log[p]: what p's invocation of main did with each folder so far
    wb,            \* the workbook build_mapping was called with
    mpc,           \* where build_mapping is: start, parsed, done, raised
    all_records,   \* build_mapping's all_records after the loop over the sheets
    unique,        \* build_mapping's unique: what it returns
    call,          \* one call of a function on its own: fn, args, ret
    dbfile,        \* ingest.py: the database file at db_path, [exists, tables]
    run,           \* ingest.py: the run of ingest in progress, [pc, snap, frames, next]
    built          \* ingest.py: what the last run that finished has computed

\* The variables of a build_mapping call on its own.
mapVars == <<wb, mpc, all_records, unique>>

\* What the ingestion of download folders leaves alone.
\* The variables of ingest.py's ingest.
rebuildVars == <<dbfile, run, built>>

outsideIngest == <<mapVars, call, rebuildVars>>

vars == <<db, pc, cur, left, txn, pending, lock, latest, lastIngested, log, outsideIngest>>

(***************************************************************************)
(* Bounds of the model.                                                    *)
(***************************************************************************)
MaxArgs == 2

(***************************************************************************)
(* Text helpers: what str.strip, str.lower, `in`, str.startswith and the   *)
(* regular expressions of the source do.                                   *)
(***************************************************************************)
Min(a, b) == IF a < b THEN a ELSE b

Max(a, b) == IF a < b THEN b ELSE a

\* LET x == v IN F(x), the value v being computed once wherever F uses x.
Let(v, F(_)) == F(v)

Char(s, i) == SubSeq(s, i, i)

\* s[i-1:j] of Python for 1 <= i: the characters i..j that exist.
Sub(s, i, j) ==
    IF j <= Len(s) THEN SubSeq(s, i, j)
    ELSE IF i > Len(s) THEN "" ELSE SubSeq(s, i, Len(s))

MinOf(S) == CHOOSE i \in S : \A j \in S : i <= j

MaxOf(S) == CHOOSE i \in S : \A j \in S : j <= i

\* s with the characters of the set `chars` removed from both ends: what is
\* left runs from the first to the last character outside `chars`.
StripChars(s, chars) ==
    Let({i \in 1..Len(s) : Char(s, i) \notin chars}, LAMBDA kept :
        IF kept = {} THEN "" ELSE SubSeq(s, MinOf(kept), MaxOf(kept)))

\* str.strip()
Strip(s) == StripChars(s, {" ", "\t", "\n", "\r"})

UpperChars == "ABCDEFGHIJKLMNOPQRSTUVWXYZ"

LowerChars == "abcdefghijklmnopqrstuvwxyz"

DigitChars == "0123456789"

CharsOf(s) == {Char(s, i) : i \in 1..Len(s)}

UpperSet == CharsOf(UpperChars)

LowerSet == CharsOf(LowerChars)

DigitSet == CharsOf(DigitChars)

IndexIn(s, c) == CHOOSE i \in 1..Len(s) : Char(s, i) = c

LowerChar(c) == IF c \in UpperSet THEN Char(LowerChars, IndexIn(UpperChars, c)) ELSE c

\* str.lower(), character by character (the text is split in halves so that
\* the recursion stays shallow).
RECURSIVE Lower(_)
Lower(s) ==
    IF Len(s) <= 1 THEN LowerChar(s)
    ELSE Lower(SubSeq(s, 1, Len(s) \div 2)) \o Lower(SubSeq(s, Len(s) \div 2 + 1, Len(s)))

IsDigit(c) == c \in DigitSet

\* \w of the regular expressions: letters, digits, underscore.
IsWordChar(c) == c \in UpperSet \/ c \in LowerSet \/ c \in DigitSet \/ c = "_"

AllDigits(s) == \A i \in 1..Len(s) : IsDigit(Char(s, i))

StartsWith(s, p) == Sub(s, 1, Len(p)) = p

EndsWith(s, p) == Len(s) >= Len(p) /\ Sub(s, Len(s) - Len(p) + 1, Len(s)) = p

\* `m in s` of Python.
Contains(s, m) == \E i \in 0..(Len(s) - Len(m)) : Sub(s, i + 1, i + Len(m)) = m

\* s.split(".")[0]
BeforeDot(s) ==
    Let({i \in 1..Len(s) : Char(s, i) = "."}, LAMBDA dots :
        IF dots = {} THEN s ELSE SubSeq(s, 1, MinOf(dots) - 1))

\* The end of the longest run of characters satisfying \w (resp. \d) that
\* starts at position i; i - 1 when there is none.
WordRunEnd(s, i) ==
    Let({j \in i..Len(s) : ~IsWordChar(Char(s, j))}, LAMBDA stops :
        IF stops = {} THEN Max(Len(s), i - 1) ELSE MinOf(stops) - 1)

DigitRunEnd(s, i) ==
    Let({j \in i..Len(s) : ~IsDigit(Char(s, j))}, LAMBDA stops :
        IF stops = {} THEN Max(Len(s), i - 1) ELSE MinOf(stops) - 1)

DigitVal(c) == IndexIn(DigitChars, c) - 1

RECURSIVE DigitsToInt(_)
DigitsToInt(s) ==
    IF s = "" THEN 0 ELSE 10 * DigitsToInt(Sub(s, 1, Len(s) - 1)) + DigitVal(Char(s, Len(s)))

(***************************************************************************)
(* SQL NULL / Python None.  A number is [m |-> mantissa, e |-> exponent],  *)
(* the decimal m * 10^e with m not divisible by 10 (0 is [m 0, e 0]): two  *)
(* spellings of one value ("45.6", "45.60", " 45.6") parse to one number.  *)
(* Binary rounding of float is not modelled.                               *)
(***************************************************************************)
Null == [null |-> TRUE]

\* NULL in a TEXT column (no text of the model equals it).
NullText == "<NULL>"

RECURSIVE Normalize(_, _)
Normalize(m, e) ==
    IF m = 0 THEN [m |-> 0, e |-> 0]
    ELSE IF m % 10 = 0 THEN Normalize(m \div 10, e + 1)
    ELSE [m |-> m, e |-> e]

\* The unsigned part u of the stripped text, ip its digits before the ".".
ParseDecimal(sgn, u, ip) ==
    Let(Sub(u, Len(ip) + 2, Len(u)), LAMBDA fp :
        IF AllDigits(ip) /\ AllDigits(fp) /\ Len(ip) + Len(fp) > 0
        THEN Normalize(sgn * DigitsToInt(ip \o fp), 0 - Len(fp))
        ELSE Null)

\* float(raw_val) with ValueError/TypeError caught: the text is stripped, an
\* optional sign, then digits with at most one "."; at least one digit.
\* (Exact for the model's value alphabet, which has no exponent, "_", "inf"
\* or "nan".)
ParseFloat(raw_val) ==
    Let(Strip(raw_val), LAMBDA t :
    Let(IF Sub(t, 1, 1) \in {"-", "+"} THEN Tail(t) ELSE t, LAMBDA u :
        ParseDecimal(IF Sub(t, 1, 1) = "-" THEN -1 ELSE 1, u, BeforeDot(u))))

\* numeric / 1e6 if numeric is not None else None
ValueEurM(numeric) ==
    IF numeric = Null THEN Null ELSE Normalize(numeric.m, numeric.e - 6)

(***************************************************************************)
(* ingest_p3dh.py: constants.                                              *)
(***************************************************************************)
\* LEI -> short entity name, in the order of the dict.
LEI_NAMES ==
    << <<"BFXS5XCH7N0Y05NIXW11", "ABN AMRO">>,
       <<"6V5X0Z0Y1OCLKZXOI394", "ABN AMRO (solo)">>,
       <<"549300DIFDNI4Q13  ",   "KBC Group">>,
       <<"213800MBWEIJDM5CU638", "KBC Group">>,
       <<"LSGM84136ACA92XCN876", "ING Group">>,
       <<"JLS56RAMYQZECFUF2G44", "Rabobank">>,
       <<"DG3RU1DBUFHT4ZF9WN62", "BNP Paribas">>,
       <<"R0MUWSFPU8MPRO8K5P83", "HSBC">>,
       <<"529900HNOAA1KXQJUQ27", "Deutsche Bank">>,
       <<"O2RNE8IBXP4R0TD8PU41", "Goldman Sachs">>,
       <<"5493006MHB84DD0ZWV18", "Barclays">>,
       <<"B4TYDEB6GKMZO031MB27", "UBS">> >>

\* Module keyword -> substring of the mapping workbook's file name.
MODULE_MAPPING_FILES ==
    << <<"findis", "FINDISPILLAR3">>,
       <<"codi",   "CODISPILLAR3">>,
       <<"irrbb",  "IRRBBDISPILLAR3">>,
       <<"esg",    "ESGDISPILLAR3">>,
       <<"gsii",   "GSIIDISPILLAR3">>,
       <<"mrel",   "MRELTLACDISPILLAR3">>,
       <<"rem",    "REMDISPILLAR3">>,
       <<"p3dh",   "P3DHPILLAR3">> >>

\* Unit marker -> unit, in the order of the dict.
UNIT_MAP ==
    << <<"€£$", "monetary">>, <<"%", "percentage">>, <<"#", "count">>,
       <<"yyyy-mm-dd", "date">> >>

\* dict.get(key, default) on a sequence of <<key, value>> pairs in which a
\* later pair for a key replaces an earlier one (dict assignment).
PairsGet(pairs, key, default) ==
    Let({i \in 1..Len(pairs) : pairs[i][1] = key}, LAMBDA hits :
        IF hits = {} THEN default ELSE pairs[MaxOf(hits)][2])

(***************************************************************************)
(* _parse_dp_cell: (dp_id, unit) of a datapoint cell; none is the source's *)
(* dp_id None.                                                             *)
(***************************************************************************)
\* A variant in which the last marker of UNIT_MAP that the text contains
\* decides.
RECURSIVE LastUnitFrom(_, _)
LastUnitFrom(text, i) ==
    IF i > Len(UNIT_MAP) THEN ""
    ELSE IF LastUnitFrom(text, i + 1) # "" THEN LastUnitFrom(text, i + 1)
    ELSE IF Contains(text, UNIT_MAP[i][1]) THEN UNIT_MAP[i][2]
    ELSE ""

\* next((u for marker, u in UNIT_MAP.items() if marker in text), "")
RECURSIVE FirstUnitFrom(_, _)
FirstUnitFrom(text, i) ==
    IF i > Len(UNIT_MAP) THEN ""
    ELSE IF Contains(text, UNIT_MAP[i][1]) THEN UNIT_MAP[i][2]
    ELSE FirstUnitFrom(text, i + 1)

FirstUnit(text) == FirstUnitFrom(text, 1)

ParseDpCell(val) ==
    Let(Strip(val), LAMBDA text :
    Let(DigitRunEnd(text, 1), LAMBDA en :
        IF en < 1 THEN [none |-> TRUE, dp_id |-> "", unit |-> ""]
        ELSE [none |-> FALSE, dp_id |-> "dp" \o Sub(text, 1, en), unit |-> FirstUnit(text)]))

(***************************************************************************)
(* Spreadsheet access.  A sheet is [name, rows]; a row is a sequence of    *)
(* cells.  CellStr is the source's                                         *)
(*   str(row[ci]).strip() if ci < len(row) and row[ci] else ""             *)
(***************************************************************************)
RowAt(rows_raw, ri) == rows_raw[ri + 1]

CellStr(row, ci) == IF ci < Len(row) THEN Strip(row[ci + 1]) ELSE ""

\* re.match(r"^\d{4}$", v)
IsCode4(v) == Len(v) = 4 /\ AllDigits(v)

\* _parse_toc: {sheet_code: template_title} as pairs in row order.
RECURSIVE TocPairs(_, _)
TocPairs(rows, ri) ==
    IF ri >= Len(rows) THEN <<>>
    ELSE LET row   == RowAt(rows, ri)
             code  == IF Len(row) > 1 THEN row[2] ELSE ""
             title == IF Len(row) > 2 THEN row[3] ELSE ""
         IN  (IF code # "" /\ title # "" THEN << <<Strip(code), Strip(title)>> >> ELSE <<>>)
             \o TocPairs(rows, ri + 1)

HasSheet(book, sname) == \E i \in 1..Len(book.sheets) : book.sheets[i].name = sname

SheetOf(book, sname) ==
    book.sheets[CHOOSE i \in 1..Len(book.sheets) : book.sheets[i].name = sname]

ParseToc(book) == TocPairs(SheetOf(book, "TOC").rows, 0)

(***************************************************************************)
(* _parse_mapping_sheet.                                                   *)
(***************************************************************************)
\* The column-code row: the first ri in range(3, min(len, 12)) whose column
\* D is a 4-digit code; else 7, or the last row of a sheet of at most 7 rows.
RECURSIVE ScanCodeRow(_, _)
ScanCodeRow(rows_raw, ri) ==
    IF ri >= Min(Len(rows_raw), 12)
    THEN (IF Len(rows_raw) > 7 THEN 7 ELSE Len(rows_raw) - 1)
    ELSE IF Len(RowAt(rows_raw, ri)) > 3 /\ IsCode4(CellStr(RowAt(rows_raw, ri), 3)) THEN ri
    ELSE ScanCodeRow(rows_raw, ri + 1)

CodeRowIdx(rows_raw) == ScanCodeRow(rows_raw, 3)

\* The four rows of the header block, for the column-code row found.
HeaderRows(rows_raw, code_row_idx) ==
    [ code_row_idx |-> code_row_idx,
      header_row   |-> IF code_row_idx >= 3 THEN RowAt(rows_raw, code_row_idx - 3) ELSE <<>>,
      group_row    |-> IF code_row_idx >= 2 THEN RowAt(rows_raw, code_row_idx - 2) ELSE <<>>,
      sub_row      |-> IF code_row_idx >= 1 THEN RowAt(rows_raw, code_row_idx - 1) ELSE <<>>,
      code_row     |-> RowAt(rows_raw, code_row_idx) ]

HeaderBlock(rows_raw) == HeaderRows(rows_raw, CodeRowIdx(rows_raw))

MaxCi(hb) ==
    Max(Max(Len(hb.header_row), Len(hb.group_row)), Max(Len(hb.sub_row), Len(hb.code_row)))

SkippedCol == [skip |-> TRUE]

\* A variant whose col_parent is taken from the column's own cells.
ColEntryOwnParent(h, g, s, c, last_header, last_group) ==
    [ skip       |-> FALSE,
      col_code   |-> c,
      col_header |-> last_header,
      col_group  |-> IF g # "" \/ s # "" THEN last_group ELSE "",
      col_sub    |-> s,
      col_label  |-> IF s # "" THEN s ELSE IF g # "" THEN g ELSE h,
      col_parent |-> IF s # "" THEN g ELSE IF g # "" THEN h ELSE "" ]

\* One iteration of the column loop for a column that is kept: the col_info
\* entry, given last_header and last_group as already updated by h and g.
ColEntry(h, g, s, c, last_header, last_group) ==
    [ skip       |-> FALSE,
      col_code   |-> c,
      col_header |-> last_header,
      col_group  |-> IF g # "" \/ s # "" THEN last_group ELSE "",
      col_sub    |-> s,
      col_label  |-> IF s # "" THEN s ELSE IF g # "" THEN g ELSE h,
      col_parent |-> IF s # "" THEN last_group ELSE IF g # "" THEN last_header ELSE "" ]

\* A dimension-property column: g.startswith("(q") or h.startswith("(q").
IsDimensionColumn(h, g) == StartsWith(g, "(q") \/ StartsWith(h, "(q")

\* The new last_header / last_group after a kept column.
CarryHeader(h, last_header) == IF h # "" THEN h ELSE last_header

\* A variant that forgets the carried label at a blank group cell.
CarryGroupResets(g, last_group) == g

CarryGroup(g, last_group) == IF g # "" THEN g ELSE last_group

\* A variant that appends nothing for a dimension-property column.
RECURSIVE ColInfoFromDropsSkipped(_, _, _, _)
ColInfoFromDropsSkipped(hb, ci, last_header, last_group) ==
    IF ci >= MaxCi(hb) THEN <<>>
    ELSE Let(CellStr(hb.header_row, ci), LAMBDA h :
         Let(CellStr(hb.group_row, ci), LAMBDA g :
             IF IsDimensionColumn(h, g)
             THEN ColInfoFromDropsSkipped(hb, ci + 1, last_header, last_group)
             ELSE Let(CarryHeader(h, last_header), LAMBDA lh :
                  Let(CarryGroup(g, last_group), LAMBDA lg :
                      <<ColEntry(h, g, CellStr(hb.sub_row, ci), CellStr(hb.code_row, ci), lh, lg)>>
                      \o ColInfoFromDropsSkipped(hb, ci + 1, lh, lg)))))

\* The loop `for ci in range(3, max_ci)` from ci on, with its running state.
RECURSIVE ColInfoFrom(_, _, _, _)
ColInfoFrom(hb, ci, last_header, last_group) ==
    IF ci >= MaxCi(hb) THEN <<>>
    ELSE Let(CellStr(hb.header_row, ci), LAMBDA h :
         Let(CellStr(hb.group_row, ci), LAMBDA g :
             IF IsDimensionColumn(h, g)
             THEN <<SkippedCol>> \o ColInfoFrom(hb, ci + 1, last_header, last_group)
             ELSE Let(CarryHeader(h, last_header), LAMBDA lh :
                  Let(CarryGroup(g, last_group), LAMBDA lg :
                      <<ColEntry(h, g, CellStr(hb.sub_row, ci), CellStr(hb.code_row, ci), lh, lg)>>
                      \o ColInfoFrom(hb, ci + 1, lh, lg)))))

ColInfo(hb) == ColInfoFrom(hb, 3, "", "")

\* The record of one datapoint cell.
MakeRecord(dp, sheet_name, template_title, row_label, row_code, ci_dict) ==
    [ datapoint      |-> dp.dp_id,
      template       |-> sheet_name,
      template_title |-> template_title,
      row_label      |-> row_label,
      row_code       |-> row_code,
      col_code       |-> ci_dict.col_code,
      col_label      |-> ci_dict.col_label,
      col_parent     |-> ci_dict.col_parent,
      col_header     |-> ci_dict.col_header,
      col_group      |-> ci_dict.col_group,
      col_sub        |-> ci_dict.col_sub,
      unit           |-> dp.unit ]

\* The inner loop `for ci in range(3, len(row))` from ci on.  ctx carries
\* sheet_name, template_title, row_label and row_code.
RECURSIVE RowRecords(_, _, _, _)
RowRecords(row, ci, col_info, ctx) ==
    IF ci >= Len(row) THEN <<>>
    ELSE Let(ParseDpCell(row[ci + 1]), LAMBDA dp :
         LET col_idx == ci - 3
             rest    == RowRecords(row, ci + 1, col_info, ctx)
         IN  IF dp.none THEN rest
             ELSE IF col_idx >= Len(col_info) THEN rest
             ELSE IF col_info[col_idx + 1].skip THEN rest
             ELSE <<MakeRecord(dp, ctx.sheet_name, ctx.template_title,
                               ctx.row_label, ctx.row_code, col_info[col_idx + 1])>> \o rest)

\* The outer loop `for ri in range(data_start, len(rows_raw))` from ri on.
RECURSIVE DataRecords(_, _, _, _)
DataRecords(rows_raw, ri, col_info, ctx) ==
    IF ri >= Len(rows_raw) THEN <<>>
    ELSE Let(RowAt(rows_raw, ri), LAMBDA row :
         Let(CellStr(row, 1), LAMBDA row_label :
         Let(CellStr(row, 2), LAMBDA row_code :
         LET rest == DataRecords(rows_raw, ri + 1, col_info, ctx)
         IN  IF Len(row) < 4 THEN rest
             ELSE IF row_label = "Main Property" THEN <<>>
             ELSE IF row_code = "" THEN rest
             ELSE RowRecords(row, 3, col_info,
                             [ctx EXCEPT !.row_label = row_label, !.row_code = row_code]) \o rest)))

\* toc.get(sheet_name, str(rows_raw[0][0] or sheet_name)); the default is
\* evaluated whether or not the TOC has the sheet, and rows_raw[0][0] of an
\* empty first row raises IndexError.
TemplateTitle(rows_raw, sheet_name, toc) ==
    PairsGet(toc, sheet_name,
             IF rows_raw[1][1] # "" THEN rows_raw[1][1] ELSE sheet_name)

\* [raised, records]: raised is an exception leaving _parse_mapping_sheet.
ParseMappingSheet(rows_raw, sheet_name, toc) ==
    IF Len(rows_raw) < 5 THEN [raised |-> FALSE, records |-> <<>>]
    ELSE IF Len(rows_raw[1]) = 0 THEN [raised |-> TRUE, records |-> <<>>]
    ELSE Let(HeaderBlock(rows_raw), LAMBDA hb :
             [ raised  |-> FALSE,
               records |-> DataRecords(rows_raw, hb.code_row_idx + 1, ColInfo(hb),
                               [ sheet_name     |-> sheet_name,
                                 template_title |-> TemplateTitle(rows_raw, sheet_name, toc),
                                 row_label      |-> "",
                                 row_code       |-> "" ]) ])

(***************************************************************************)
(* build_mapping (ingest_p3dh.py).                                         *)
(***************************************************************************)
\* The loop over wb.sheetnames from sheet i on: all_records, or a raise.
RECURSIVE AllRecords(_, _, _)
AllRecords(book, i, toc) ==
    IF i > Len(book.sheets) THEN [raised |-> FALSE, records |-> <<>>]
    ELSE IF book.sheets[i].name = "TOC" THEN AllRecords(book, i + 1, toc)
    ELSE Let(ParseMappingSheet(book.sheets[i].rows, book.sheets[i].name, toc), LAMBDA one :
         Let(AllRecords(book, i + 1, toc), LAMBDA rest :
             IF one.raised \/ rest.raised THEN [raised |-> TRUE, records |-> <<>>]
             ELSE [raised |-> FALSE, records |-> one.records \o rest.records]))

\* The key the deduplication compares.
DedupKey(r) == <<r.datapoint, r.template>>

\* Deduplicate by (datapoint, template): the loop over all_records from i
\* on (records is all_records), with the set of keys seen so far.
\* A variant in which the last record of a pair survives.
RECURSIVE DedupKeepsLast(_, _, _)
DedupKeepsLast(records, i, seen) ==
    IF i > Len(records) THEN <<>>
    ELSE IF \E j \in (i + 1)..Len(records) : DedupKey(records[j]) = DedupKey(records[i])
         THEN DedupKeepsLast(records, i + 1, seen)
         ELSE <<records[i]>> \o DedupKeepsLast(records, i + 1, seen)

RECURSIVE Dedup(_, _, _)
Dedup(records, i, seen) ==
    IF i > Len(records) THEN <<>>
    ELSE LET r == records[i]
         IN  IF DedupKey(r) \in seen THEN Dedup(records, i + 1, seen)
             ELSE <<r>> \o Dedup(records, i + 1, seen \cup {DedupKey(r)})

BuildMapping(book) ==
    IF ~HasSheet(book, "TOC") THEN [raised |-> TRUE, records |-> <<>>]
    ELSE Let(AllRecords(book, 1, ParseToc(book)), LAMBDA all :
             IF all.raised THEN all
             ELSE [raised |-> FALSE, records |-> Dedup(all.records, 1, {})])

(***************************************************************************)
(* File system access.  A folder is                                        *)
(*   [is_dir, has_params, params, has_report, extends, files]              *)
(* params: the rows of parameters.csv as <<name, value>>; extends: the     *)
(* documentInfo.extends URLs of report.json; files: the directory's files  *)
(* as [name, fields, rows], fields being the CSV header.  Every CSV row    *)
(* has one cell per field.                                                 *)
(***************************************************************************)
\* Code points order the characters that file names use.
AsciiOrder == " #$%()-.+/0123456789:ABCDEFGHIJKLMNOPQRSTUVWXYZ_abcdefghijklmnopqrstuvwxyz"

RECURSIVE StrLess(_, _)
StrLess(a, b) ==
    IF b = "" THEN FALSE
    ELSE IF a = "" THEN TRUE
    ELSE IF Head(a) = Head(b) THEN StrLess(Tail(a), Tail(b))
    ELSE IndexIn(AsciiOrder, Head(a)) < IndexIn(AsciiOrder, Head(b))

\* folder.glob("k_*.csv")
IsFactFile(name) == StartsWith(name, "k_") /\ EndsWith(name, ".csv") /\ Len(name) >= 6

\* Path.stem of a name ending in ".csv".
Stem(name) == Sub(name, 1, Len(name) - 4)

\* sorted(...): insertion of one file into a list sorted by name.
RECURSIVE InsertSorted(_, _)
InsertSorted(file, sorted) ==
    IF sorted = <<>> THEN <<file>>
    ELSE IF StrLess(file.name, Head(sorted).name) THEN <<file>> \o sorted
    ELSE <<Head(sorted)>> \o InsertSorted(file, Tail(sorted))

RECURSIVE SortedFactFiles(_)
SortedFactFiles(files) ==
    IF files = <<>> THEN <<>>
    ELSE IF IsFactFile(Head(files).name)
         THEN InsertSorted(Head(files), SortedFactFiles(Tail(files)))
         ELSE SortedFactFiles(Tail(files))

HasField(file, name) == \E i \in 1..Len(file.fields) : file.fields[i] = name

FieldOf(file, row, name) ==
    row[CHOOSE i \in 1..Len(file.fields) : file.fields[i] = name]

\* The rows of one file as (datapoint, factValue, file_stem); row["..."]
\* raises KeyError when the header lacks the column and the file has a row.
FileFacts(file) ==
    IF file.rows # <<>> /\ ~(HasField(file, "datapoint") /\ HasField(file, "factValue"))
    THEN [raised |-> TRUE, facts |-> <<>>]
    ELSE [ raised |-> FALSE,
           facts  |-> [i \in 1..Len(file.rows) |->
                         [ datapoint |-> FieldOf(file, file.rows[i], "datapoint"),
                           factValue |-> FieldOf(file, file.rows[i], "factValue"),
                           file      |-> Stem(file.name) ]] ]

RECURSIVE ConcatFacts(_)
ConcatFacts(files) ==
    IF files = <<>> THEN [raised |-> FALSE, facts |-> <<>>]
    ELSE Let(FileFacts(Head(files)), LAMBDA one :
         Let(ConcatFacts(Tail(files)), LAMBDA rest :
             IF one.raised \/ rest.raised THEN [raised |-> TRUE, facts |-> <<>>]
             ELSE [raised |-> FALSE, facts |-> one.facts \o rest.facts]))

\* _load_csv_data: no file at all gives the empty list, as files without
\* rows do.
LoadCsvData(folder) == ConcatFacts(SortedFactFiles(folder.files))

\* _read_parameters: {} without parameters.csv.
ReadParameters(folder) == IF folder.has_params THEN folder.params ELSE <<>>

\* re.search(r"/mod/(\w+)\.json", url): the group of the leftmost match,
\* "" for no match.
ModuleMatchAt(url, i) ==
    Let(WordRunEnd(url, i + 5), LAMBDA en :
        IF Sub(url, i, i + 4) = "/mod/" /\ en >= i + 5 /\ Sub(url, en + 1, en + 5) = ".json"
        THEN Sub(url, i + 5, en) ELSE "")

ModuleOfUrl(url) ==
    Let({i \in 1..Len(url) : ModuleMatchAt(url, i) # ""}, LAMBDA hits :
        IF hits = {} THEN "" ELSE ModuleMatchAt(url, MinOf(hits)))

\* _read_module: the first URL of extends that matches.
RECURSIVE FirstModule(_)
FirstModule(extends) ==
    IF extends = <<>> THEN ""
    ELSE Let(ModuleOfUrl(Head(extends)), LAMBDA m :
             IF m # "" THEN m ELSE FirstModule(Tail(extends)))

ReadModule(folder) == IF folder.has_report THEN FirstModule(folder.extends) ELSE ""

\* re.sub(r"^(rs:|lei:)", "", lei, flags=re.IGNORECASE)
StripTag(lei) ==
    IF Lower(Sub(lei, 1, 3)) = "rs:" THEN Sub(lei, 4, Len(lei))
    ELSE IF Lower(Sub(lei, 1, 4)) = "lei:" THEN Sub(lei, 5, Len(lei))
    ELSE lei

\* A variant that keeps the scope suffix in the lei of the partition key.
NormalizeLeiKeepsSuffix(lei_raw) == Strip(StripTag(lei_raw))

\* Lines 375-376 of ingest_folder: the lei of the partition key.
NormalizeLei(lei_raw) == Strip(BeforeDot(StripTag(lei_raw)))

\* A variant that looks the identifier up with its scope suffix still on.
LeiToNameKeepsSuffix(lei) ==
    Let(Strip(StripTag(lei)), LAMBDA clean : PairsGet(LEI_NAMES, clean, clean))

\* _lei_to_name
LeiToName(lei) ==
    Let(Strip(BeforeDot(StripTag(lei))), LAMBDA clean : PairsGet(LEI_NAMES, clean, clean))

\* str.strip("/")
StripSlashes(s) == StripChars(s, {"/"})

\* _find_mapping_xlsx over the workbooks of a mapping directory (in the
\* directory's order): the index of the workbook, 0 for None.
\* The (keyword, workbook) pairs that match, the first in loop order.
MappingHits(dir, key) ==
    {h \in (1..Len(MODULE_MAPPING_FILES)) \X (1..Len(dir)) :
        /\ Contains(key, MODULE_MAPPING_FILES[h[1]][1])
        /\ EndsWith(dir[h[2]].name, ".xlsx")
        /\ Contains(dir[h[2]].name, MODULE_MAPPING_FILES[h[1]][2])}

FirstHit(hits) ==
    CHOOSE h \in hits : \A g \in hits : h[1] < g[1] \/ (h[1] = g[1] /\ h[2] <= g[2])

FindMappingXlsxIn(dir, module) ==
    Let(MappingHits(dir, StripSlashes(Lower(module))), LAMBDA hits :
        IF hits = {} THEN 0 ELSE FirstHit(hits)[2])

(***************************************************************************)
(* ingest_folder, steps 1 to 4: everything it computes before it opens the *)
(* database.                                                               *)
(***************************************************************************)
\* dp_lookup.setdefault(rec["datapoint"], rec) over mapping_records, then
\* dp_lookup.get(dp): the index of the first record of the datapoint, 0 for
\* None.
RECURSIVE DpLookupFrom(_, _, _)
DpLookupFrom(mapping_records, dp, i) ==
    IF i > Len(mapping_records) THEN 0
    ELSE IF mapping_records[i].datapoint = dp THEN i
    ELSE DpLookupFrom(mapping_records, dp, i + 1)

\* A variant that finds a datapoint only in the first record of the mapping.
DpLookupFirstRecord(mapping_records, dp) ==
    IF mapping_records # <<>> /\ mapping_records[1].datapoint = dp THEN 1 ELSE 0

DpLookup(mapping_records, dp) == DpLookupFrom(mapping_records, dp, 1)

\* The tuple appended to rows_to_insert, by column name of INSERT_FACT.
FactRowOf(b, meta, fact, numeric) ==
    [ entity         |-> b.entity,
      lei            |-> b.lei,
      ref_period     |-> b.ref_period,
      module         |-> b.module,
      currency       |-> b.currency,
      template       |-> meta.template,
      template_title |-> meta.template_title,
      row_code       |-> meta.row_code,
      row_label      |-> meta.row_label,
      col_code       |-> meta.col_code,
      col_label      |-> meta.col_label,
      col_parent     |-> meta.col_parent,
      col_header     |-> meta.col_header,
      col_group      |-> meta.col_group,
      col_sub        |-> meta.col_sub,
      file           |-> fact.file,
      datapoint      |-> fact.datapoint,
      value          |-> numeric,
      value_raw      |-> fact.factValue,
      value_eur_m    |-> ValueEurM(numeric),
      unit           |-> meta.unit ]

FactRow(b, meta, fact) == FactRowOf(b, meta, fact, ParseFloat(fact.factValue))

\* The matching loop over csv_facts from fact i on: rows_to_insert.  A fact
\* without a definition is counted and skipped (`continue`).
RECURSIVE RowsToInsert(_, _, _, _)
RowsToInsert(b, mapping_records, csv_facts, i) ==
    IF i > Len(csv_facts) THEN <<>>
    ELSE Let(DpLookup(mapping_records, csv_facts[i].datapoint), LAMBDA k :
         LET rest == RowsToInsert(b, mapping_records, csv_facts, i + 1)
         IN  IF k = 0 THEN rest
             ELSE <<FactRow(b, mapping_records[k], csv_facts[i])>> \o rest)

\* The counters of the matching loop.
Matched(mapping_records, csv_facts) ==
    Cardinality({i \in 1..Len(csv_facts) : DpLookup(mapping_records, csv_facts[i].datapoint) # 0})

Unmatched(mapping_records, csv_facts) ==
    Cardinality({i \in 1..Len(csv_facts) : DpLookup(mapping_records, csv_facts[i].datapoint) = 0})

\* A variant without the defaults of the three params.get calls.
ReadMetadataNoDefaults(folder) ==
    Let(ReadParameters(folder), LAMBDA params :
    Let(PairsGet(params, "entityID", ""), LAMBDA lei_raw :
        [ module     |-> ReadModule(folder),
          lei        |-> NormalizeLei(lei_raw),
          entity     |-> LeiToName(lei_raw),
          ref_period |-> PairsGet(params, "refPeriod", ""),
          currency   |-> PairsGet(params, "baseCurrency", "") ]))

\* Step 1: the batch context read from parameters.csv and report.json.
ReadMetadata(folder) ==
    Let(ReadParameters(folder), LAMBDA params :
    Let(PairsGet(params, "entityID", "UNKNOWN"), LAMBDA lei_raw :
        [ module     |-> ReadModule(folder),
          lei        |-> NormalizeLei(lei_raw),
          entity     |-> LeiToName(lei_raw),
          ref_period |-> PairsGet(params, "refPeriod", "UNKNOWN"),
          currency   |-> PairsGet(params, "baseCurrency", "EUR") ]))

\* Steps 1-4.  outcome: "no_mapping" (the early return), "raised" (an
\* exception leaves ingest_folder) or "ready" (rows_to_insert is prepared).
NotPrepared(outcome, b) ==
    [ outcome |-> outcome, batch |-> b, mapping |-> <<>>, csv_facts |-> <<>>,
      rows_to_insert |-> <<>>, matched |-> 0, unmatched |-> 0 ]

\* Steps 3 and 4, given the parsed mapping and the loaded facts.
MatchFacts(b, mapping, csv) ==
    IF mapping.raised \/ csv.raised THEN NotPrepared("raised", b)
    ELSE [ outcome        |-> "ready",
           batch          |-> b,
           mapping        |-> mapping.records,
           csv_facts      |-> csv.facts,
           rows_to_insert |-> RowsToInsert(b, mapping.records, csv.facts, 1),
           matched        |-> Matched(mapping.records, csv.facts),
           unmatched      |-> Unmatched(mapping.records, csv.facts) ]

IngestPrepare(folder, dir) ==
    Let(ReadMetadata(folder), LAMBDA b :
    Let(FindMappingXlsxIn(dir, b.module), LAMBDA path :
        IF path = 0 THEN NotPrepared("no_mapping", b)
        ELSE MatchFacts(b, BuildMapping(dir[path]), LoadCsvData(folder))))

(***************************************************************************)
(* The inputs of the ingestion specification: the Mapping directory and    *)
(* the download folders a command line can name.                           *)
(***************************************************************************)
TocSheet(pairs) ==
    [ name |-> "TOC",
      rows |-> [i \in 1..Len(pairs) |-> <<"", pairs[i][1], pairs[i][2]>>] ]

\* A template sheet in the layout of the annotated table layouts: title,
\* header, group label, sub-label, column codes, data rows, metadata.
Sheet6100 ==
    [ name |-> "K_61.00",
      rows |-> << <<"K_61.00 - EU KM1", "", "", "", "">>,
                  <<"Columns", "", "", "Amounts", "">>,
                  <<"", "", "", "Gross", "">>,
                  <<"", "", "", "a. T", "b. T-1">>,
                  <<"", "", "", "0010", "0020">>,
                  <<"Rows", "Total capital", "0010", "101_x000D_\n€£$", "102_x000D_\n%">>,
                  <<"", "Main Property", "", "", "">> >> ]

Sheet6000 ==
    [ name |-> "K_60.00",
      rows |-> << <<"K_60.00 - EU OV1", "", "", "", "">>,
                  <<"Columns", "", "", "RWEA", "">>,
                  <<"", "", "", "", "">>,
                  <<"", "", "", "", "">>,
                  <<"", "", "", "0010", "0020">>,
                  <<"Rows", "Credit risk", "0010", "101_x000D_\n€£$", "103_x000D_\n#">> >> ]

Sheet0700 ==
    [ name |-> "K_07.00",
      rows |-> << <<"", "", "", "", "">>,
                  <<"Columns", "", "", "Exposures", "">>,
                  <<"", "", "", "", "">>,
                  <<"", "", "", "", "">>,
                  <<"", "", "", "0010", "">>,
                  <<"Rows", "Loans", "0010", "201_x000D_\n€£$", "">> >> ]

FindisBook ==
    [ name   |-> "20250519 Annotated Table Layout  FINDISPILLAR3 4.1.xlsx",
      sheets |-> << TocSheet(<< <<"K_61.00", "Key metrics">> >>), Sheet6100, Sheet6000 >> ]

CodiBook ==
    [ name   |-> "20250519 Annotated Table Layout  CODISPILLAR3 4.1.xlsx",
      sheets |-> << TocSheet(<< <<"K_07.00", "Credit risk">> >>), Sheet0700 >> ]

\* MAPPING_DIR, in directory order.
MappingDir == <<CodiBook, FindisBook>>

FactFile(name, rows) == [name |-> name, fields |-> <<"datapoint", "factValue">>, rows |-> rows]

ParamsOf(entityID, refPeriod) ==
    << <<"entityID", entityID>>, <<"refPeriod", refPeriod>>, <<"baseCurrency", "EUR">> >>

ModUrl(module) == "http://www.eba.europa.eu/eu/fr/xbrl/crr/fws/pillar3/4.1/mod/" \o module \o ".json"

DownloadFolder(entityID, module, files) ==
    [ is_dir     |-> TRUE,
      has_params |-> TRUE,
      params     |-> ParamsOf(entityID, "2024-12-31"),
      has_report |-> TRUE,
      extends    |-> <<ModUrl(module)>>,
      files      |-> files ]

\* 1: a consolidated report, one matched and one unmatched fact, and a file
\*    without rows;  2: the same LEI with another scope suffix, a datapoint
\*    twice in one file, a value that is no number;  3: an LEI outside
\*    LEI_NAMES, another module;  4: a module without mapping workbook;
\*    5: no k_*.csv at all;  6: not a directory;  7: a fact file whose header
\*    lacks factValue;  8: no parameters.csv, and in k_60.00.csv a datapoint
\*    that K_61.00 and K_60.00 both define;  9: another folder without
\*    parameters.csv, the same module;  10: a parameters.csv that has the
\*    period only.
FolderData ==
    << DownloadFolder("lei:213800MBWEIJDM5CU638.CON", "findis",
           << FactFile("k_61.00.csv", << <<"dp101", "45.6">>, <<"dp123", "45.6">> >>),
              FactFile("k_00.02.csv", <<>>),
              [name |-> "notes.txt", fields |-> <<>>, rows |-> <<>>] >>),
       DownloadFolder("213800MBWEIJDM5CU638.IND", "findis",
           << FactFile("k_61.00.csv", << <<"dp101", " 45.60">>, <<"dp101", "n/a">> >>) >>),
       DownloadFolder("rs:XYZ", "codi",
           << FactFile("k_07.00.csv", << <<"dp201", "-1500000">> >>) >>),
       DownloadFolder("lei:213800MBWEIJDM5CU638.CON", "liqdis",
           << FactFile("k_61.00.csv", << <<"dp101", "1">> >>) >>),
       DownloadFolder("lei:213800MBWEIJDM5CU638.CON", "findis",
           << [name |-> "readme.csv", fields |-> <<>>, rows |-> <<>>] >>),
       [DownloadFolder("", "", <<>>) EXCEPT !.is_dir = FALSE],
       DownloadFolder("rs:XYZ", "codi",
           << [ name |-> "k_07.00.csv", fields |-> <<"datapoint", "value">>,
                rows |-> << <<"dp201", "3">> >> ] >>),
       [DownloadFolder("", "findis",
           << FactFile("k_60.00.csv", << <<"dp103", "12">>, <<"dp101", "7">> >>) >>)
          EXCEPT !.has_params = FALSE],
       [DownloadFolder("", "findis",
           << FactFile("k_61.00.csv", << <<"dp102", "3">> >>) >>)
          EXCEPT !.has_params = FALSE],
       [DownloadFolder("", "codi",
           << FactFile("k_07.00.csv", << <<"dp201", "8">> >>) >>)
          EXCEPT !.params = << <<"refPeriod", "2025-06-30">> >>] >>

Folders == 1..Len(FolderData)

\* What ingest_folder computes for each folder before it opens the database.
Batch == [f \in Folders |-> IngestPrepare(FolderData[f], MappingDir)]

\* The partition key of a batch: the parameters of the DELETE.
KeyOf(b) == <<b.lei, b.ref_period, b.module>>

Keys == {KeyOf(Batch[f].batch) : f \in Folders}

(***************************************************************************)
(* The database.  The facts table is the sequence of its rows in rowid     *)
(* order (AUTOINCREMENT: a new row comes after every row there is); the id *)
(* column itself is not part of a row.  The connection is in Python's      *)
(* default mode: the DELETE opens a transaction, which lasts until         *)
(* con.commit(); an exception that leaves ingest_folder leaves main too,   *)
(* and the open transaction is rolled back.                                *)
(***************************************************************************)
Procs == {1, 2}

InKey(row, key) == <<row.lei, row.ref_period, row.module>> = key

\* SELECT * FROM facts WHERE lei = ? AND ref_period = ? AND module = ?
Partition(table, key) == SelectSeq(table, LAMBDA row : InKey(row, key))

\* Variants: a DELETE that removes nothing, and one that removes every row
\* of the period.
DeleteKeepsAll(table, key) == table

DeleteByPeriod(table, key) == SelectSeq(table, LAMBDA row : row.ref_period # key[2])

\* A variant that removes every row of the module.
DeleteByModule(table, key) == SelectSeq(table, LAMBDA row : row.module # key[3])

\* DELETE FROM facts WHERE lei = ? AND ref_period = ? AND module = ?
DeletePartition(table, key) == SelectSeq(table, LAMBDA row : ~InKey(row, key))

CurKey(p) == KeyOf(Batch[cur[p]].batch)

\* What main has done with one folder argument.
Entry(f, outcome, rows) == [folder |-> f, outcome |-> outcome, rows |-> rows]

\* No database file yet, nothing running.
InitIngest ==
    /\ db = <<>>
    /\ pc = [p \in Procs |-> "idle"]
    /\ cur = [p \in Procs |-> 0]
    /\ left = [p \in Procs |-> 0]
    /\ txn = [p \in Procs |-> <<>>]
    /\ pending = [p \in Procs |-> <<>>]
    /\ lock = 0
    /\ latest = [k \in Keys |-> <<>>]
    /\ lastIngested = 0
    /\ log = [p \in Procs |-> <<>>]

\* No function is being called on its own.
NoCall == [fn |-> "", args |-> <<>>, ret |-> <<>>, returned |-> FALSE]

\* ingest.py: no database file at db_path, no run yet.
NoFile == [exists |-> FALSE, tables |-> <<>>]

NoFrames == [mapping |-> <<>>, raw_data |-> <<>>, mapped_data |-> <<>>]

NoRun == [pc |-> "idle", snap |-> 0, frames |-> NoFrames, next |-> 0]

NeverBuilt == [snap |-> 0, frames |-> NoFrames, before |-> 0]

InitRebuild == dbfile = NoFile /\ run = NoRun /\ built = NeverBuilt

Init ==
    /\ InitIngest
    /\ wb = FindisBook
    /\ mpc = "start"
    /\ all_records = <<>>
    /\ unique = <<>>
    /\ InitRebuild
    /\ call = NoCall

\* main is started with 1..MaxArgs folder arguments.
StartMain(p) ==
    /\ pc[p] \in {"idle", "crashed"}
    /\ \E n \in 1..MaxArgs : left' = [left EXCEPT ![p] = n]
    /\ pc' = [pc EXCEPT ![p] = "loop"]
    /\ log' = [log EXCEPT ![p] = <<>>]
    /\ UNCHANGED <<db, cur, txn, pending, lock, latest, lastIngested, outsideIngest>>

\* main: `for arg in args: folder = Path(arg)`
NextFolder(p) ==
    /\ pc[p] = "loop" /\ left[p] > 0
    /\ \E f \in Folders : cur' = [cur EXCEPT ![p] = f]
    /\ pc' = [pc EXCEPT ![p] = "folder"]
    /\ UNCHANGED <<db, left, txn, pending, lock, latest, lastIngested, log, outsideIngest>>

\* main: `if not folder.is_dir(): ... continue`
SkipNotDir(p) ==
    /\ pc[p] = "folder" /\ ~FolderData[cur[p]].is_dir
    /\ pc' = [pc EXCEPT ![p] = "loop"]
    /\ left' = [left EXCEPT ![p] = @ - 1]
    /\ cur' = [cur EXCEPT ![p] = 0]
    /\ log' = [log EXCEPT ![p] = Append(@, Entry(cur[p], "not_dir", 0))]
    /\ UNCHANGED <<db, txn, pending, lock, latest, lastIngested, outsideIngest>>

\* A variant in which the missing mapping ends the whole invocation.
NoMappingCrashes(p) ==
    /\ pc[p] = "folder" /\ FolderData[cur[p]].is_dir
    /\ Batch[cur[p]].outcome = "no_mapping"
    /\ pc' = [pc EXCEPT ![p] = "crashed"]
    /\ left' = [left EXCEPT ![p] = 0]
    /\ cur' = [cur EXCEPT ![p] = 0]
    /\ log' = [log EXCEPT ![p] = Append(@, Entry(cur[p], "no_mapping", 0))]
    /\ UNCHANGED <<db, txn, pending, lock, latest, lastIngested, outsideIngest>>

\* ingest_folder: `if mapping_path is None: ... return`
NoMapping(p) ==
    /\ pc[p] = "folder" /\ FolderData[cur[p]].is_dir
    /\ Batch[cur[p]].outcome = "no_mapping"
    /\ pc' = [pc EXCEPT ![p] = "loop"]
    /\ left' = [left EXCEPT ![p] = @ - 1]
    /\ cur' = [cur EXCEPT ![p] = 0]
    /\ log' = [log EXCEPT ![p] = Append(@, Entry(cur[p], "no_mapping", 0))]
    /\ UNCHANGED <<db, txn, pending, lock, latest, lastIngested, outsideIngest>>

\* A variant in which the database is opened and the partition deleted
\* before the fact files are read.
ReadRaisesAfterDelete(p) ==
    /\ pc[p] = "folder" /\ FolderData[cur[p]].is_dir
    /\ Batch[cur[p]].outcome = "raised"
    /\ db' = DeletePartition(db, CurKey(p))
    /\ pc' = [pc EXCEPT ![p] = "crashed"]
    /\ left' = [left EXCEPT ![p] = 0]
    /\ cur' = [cur EXCEPT ![p] = 0]
    /\ log' = [log EXCEPT ![p] = Append(@, Entry(cur[p], "read_raised", 0))]
    /\ UNCHANGED <<txn, pending, lock, latest, lastIngested, outsideIngest>>

\* An exception while the mapping or the fact files are read (KeyError of
\* row["factValue"]): it leaves ingest_folder and main.
ReadRaises(p) ==
    /\ pc[p] = "folder" /\ FolderData[cur[p]].is_dir
    /\ Batch[cur[p]].outcome = "raised"
    /\ pc' = [pc EXCEPT ![p] = "crashed"]
    /\ left' = [left EXCEPT ![p] = 0]
    /\ cur' = [cur EXCEPT ![p] = 0]
    /\ log' = [log EXCEPT ![p] = Append(@, Entry(cur[p], "read_raised", 0))]
    /\ UNCHANGED <<db, txn, pending, lock, latest, lastIngested, outsideIngest>>

\* ingest_folder, steps 1-4, for a folder with a mapping and readable files.
Prepare(p) ==
    /\ pc[p] = "folder" /\ FolderData[cur[p]].is_dir
    /\ Batch[cur[p]].outcome = "ready"
    /\ pending' = [pending EXCEPT ![p] = Batch[cur[p]].rows_to_insert]
    /\ pc' = [pc EXCEPT ![p] = "ready"]
    /\ UNCHANGED <<db, cur, left, txn, lock, latest, lastIngested, log, outsideIngest>>

\* A variant in which the DELETE is committed at once (autocommit).
DeleteAutocommit(p) ==
    /\ pc[p] = "ready" /\ lock = 0
    /\ lock' = p
    /\ db' = DeletePartition(db, CurKey(p))
    /\ txn' = [txn EXCEPT ![p] = DeletePartition(db, CurKey(p))]
    /\ pc' = [pc EXCEPT ![p] = "deleted"]
    /\ UNCHANGED <<cur, left, pending, latest, lastIngested, log, outsideIngest>>

\* A variant in which the DELETE does not wait for the write lock.
DeleteWithoutLock(p) ==
    /\ pc[p] = "ready"
    /\ lock' = p
    /\ txn' = [txn EXCEPT ![p] = DeletePartition(db, CurKey(p))]
    /\ pc' = [pc EXCEPT ![p] = "deleted"]
    /\ UNCHANGED <<db, cur, left, pending, latest, lastIngested, log, outsideIngest>>

\* Step 5: _init_db and con.execute("DELETE ..."), inside the transaction
\* the DELETE opens.
Delete(p) ==
    /\ pc[p] = "ready" /\ lock = 0
    /\ lock' = p
    /\ txn' = [txn EXCEPT ![p] = DeletePartition(db, CurKey(p))]
    /\ pc' = [pc EXCEPT ![p] = "deleted"]
    /\ UNCHANGED <<db, cur, left, pending, latest, lastIngested, log, outsideIngest>>

\* con.executemany(INSERT_FACT, rows_to_insert), one row at a time.
InsertRow(p) ==
    /\ pc[p] = "deleted" /\ pending[p] # <<>>
    /\ txn' = [txn EXCEPT ![p] = Append(@, Head(pending[p]))]
    /\ pending' = [pending EXCEPT ![p] = Tail(@)]
    /\ UNCHANGED <<db, pc, cur, left, lock, latest, lastIngested, log, outsideIngest>>

\* con.commit(), and the return to main's loop.
Commit(p) ==
    /\ pc[p] = "deleted" /\ pending[p] = <<>>
    /\ db' = txn[p]
    /\ latest' = [latest EXCEPT ![CurKey(p)] = Batch[cur[p]].rows_to_insert]
    /\ lastIngested' = cur[p]
    /\ lock' = 0
    /\ txn' = [txn EXCEPT ![p] = <<>>]
    /\ cur' = [cur EXCEPT ![p] = 0]
    /\ pc' = [pc EXCEPT ![p] = "loop"]
    /\ left' = [left EXCEPT ![p] = @ - 1]
    /\ log' = [log EXCEPT ![p] =
                  Append(@, Entry(cur[p], "ingested", Len(Batch[cur[p]].rows_to_insert)))]
    /\ UNCHANGED <<pending, outsideIngest>>

\* A failing write (sqlite3.Error of connect, execute or executemany): the
\* exception leaves main, the open transaction is rolled back.  The log
\* entry keeps how many rows the transaction had inserted.
WriteFails(p) ==
    /\ pc[p] \in {"ready", "deleted"}
    /\ lock' = IF lock = p THEN 0 ELSE lock
    /\ txn' = [txn EXCEPT ![p] = <<>>]
    /\ pending' = [pending EXCEPT ![p] = <<>>]
    /\ cur' = [cur EXCEPT ![p] = 0]
    /\ left' = [left EXCEPT ![p] = 0]
    /\ pc' = [pc EXCEPT ![p] = "crashed"]
    /\ log' = [log EXCEPT ![p] =
                  Append(@, Entry(cur[p],
                                  IF lock = p THEN "rolled_back" ELSE "open_failed",
                                  Len(Batch[cur[p]].rows_to_insert) - Len(pending[p])))]
    /\ UNCHANGED <<db, latest, lastIngested, outsideIngest>>

\* main: the loop is over.
Finish(p) ==
    /\ pc[p] = "loop" /\ left[p] = 0
    /\ pc' = [pc EXCEPT ![p] = "idle"]
    /\ log' = [log EXCEPT ![p] = <<>>]
    /\ UNCHANGED <<db, cur, left, txn, pending, lock, latest, lastIngested, outsideIngest>>

\* One invocation at a time: the script is run by hand, batch after batch.
Next ==
    \/ StartMain(1)
    \/ NextFolder(1)
    \/ SkipNotDir(1)
    \/ NoMapping(1)
    \/ ReadRaises(1)
    \/ Prepare(1)
    \/ Delete(1)
    \/ InsertRow(1)
    \/ Commit(1)
    \/ WriteFails(1)
    \/ Finish(1)

Spec == Init /\ [][Next]_vars

(***************************************************************************)
(* Properties of ingest_folder and main, checked under Spec.               *)
(***************************************************************************)
HasFactFiles(f) == SortedFactFiles(FolderData[f].files) # <<>>

FolderKey(f) == KeyOf(Batch[f].batch)

IsCommitStep == pc[1] = "deleted" /\ pc'[1] = "loop"

\* C1: ingesting the same folder a second time, nothing else having been
\* ingested in between, leaves the folder's partition as the first run left
\* it: the same rows, as many, none twice.
C1_Idempotent ==
    [][ (IsCommitStep /\ lastIngested = cur[1])
            => Partition(db', CurKey(1)) = Partition(db, CurKey(1)) ]_vars

\* One invocation has ingested folder 2, with its two rows, twice in a row.
C1_Witness ==
    /\ Len(log[1]) = 2
    /\ log[1][1] = Entry(2, "ingested", 2)
    /\ log[1][2] = Entry(2, "ingested", 2)
    /\ Len(Partition(db, FolderKey(2))) = 2

\* C2: the stored facts of every (lei, ref_period, module) are exactly the
\* rows of the most recent committed ingestion of that triple, and every row
\* a call is about to insert carries the triple of the call's DELETE.
C2_PartitionReplaced ==
    /\ \A k \in Keys : Partition(db, k) = latest[k]
    /\ \A p \in Procs : cur[p] # 0 =>
          \A i \in 1..Len(pending[p]) : InKey(pending[p][i], CurKey(p))

\* Folder 1 and then folder 2, which has the same triple and other rows,
\* were ingested: the partition holds the rows of folder 2 only.
C2_Witness ==
    /\ Len(log[1]) = 2
    /\ log[1][1] = Entry(1, "ingested", 1)
    /\ log[1][2] = Entry(2, "ingested", 2)
    /\ FolderKey(1) = FolderKey(2)
    /\ Partition(db, FolderKey(2)) = Batch[2].rows_to_insert
    /\ \A i \in 1..Len(db) : db[i] # Batch[1].rows_to_insert[1]

\* C3: after an ingestion has been committed, its partition has as many rows
\* as the fact files of the folder have facts.
C3_OneRowPerRawFact ==
    lastIngested # 0 =>
        Len(Partition(db, FolderKey(lastIngested))) = Len(Batch[lastIngested].csv_facts)

\* A fact of the folder f whose datapoint the mapping of f does not define.
IsUnmatched(f, fact) == DpLookup(Batch[f].mapping, fact.datapoint) = 0

\* C4: after an ingestion has been committed, every fact of the folder whose
\* datapoint has no definition is stored, with its value parsed and its
\* template null.
C4_UnmatchedKept ==
    lastIngested # 0 =>
        \A i \in 1..Len(Batch[lastIngested].csv_facts) :
            IsUnmatched(lastIngested, Batch[lastIngested].csv_facts[i]) =>
                \E j \in 1..Len(db) :
                    /\ db[j].datapoint = Batch[lastIngested].csv_facts[i].datapoint
                    /\ db[j].value = ParseFloat(Batch[lastIngested].csv_facts[i].factValue)
                    /\ db[j].template = NullText

\* C5: the persisted table changes only in the step that commits a whole
\* transaction, and then the call's partition is the complete new set of
\* rows: whatever fails between the DELETE and the commit leaves the table
\* as it was before the call.
C5_AtomicReplace ==
    [][ db' # db =>
            /\ IsCommitStep
            /\ pending[1] = <<>>
            /\ db' = txn[1]
            /\ Partition(db', CurKey(1)) = Batch[cur[1]].rows_to_insert ]_vars

\* Folder 1 was ingested; the ingestion of folder 2 then failed after the
\* DELETE and one INSERT, and the partition still is what folder 1 left.
C5_Witness ==
    /\ pc[1] = "crashed"
    /\ Len(log[1]) = 2
    /\ log[1][1] = Entry(1, "ingested", 1)
    /\ log[1][2] = Entry(2, "rolled_back", 1)
    /\ Partition(db, FolderKey(2)) = Batch[1].rows_to_insert

\* C6: a folder without any k_*.csv file never gets as far as the database:
\* no call is writing for such a folder, and none has committed for one.
C6_NoFactFilesIsFatal ==
    \A p \in Procs :
        /\ pc[p] \in {"ready", "deleted"} => HasFactFiles(cur[p])
        /\ \A i \in 1..Len(log[p]) :
              log[p][i].outcome = "ingested" => HasFactFiles(log[p][i].folder)

\* The module of the folder main is at has no mapping workbook.
ModuleUnresolvable(f) ==
    FindMappingXlsxIn(MappingDir, ReadModule(FolderData[f])) = 0

\* C7: for a folder whose module matches no mapping workbook, the step of
\* main leaves the database and every transaction alone and main is back in
\* its loop with one folder less to go, exactly as if the folder had not
\* been among the arguments.
C7_UnresolvableModuleSkipsFolder ==
    [][ (pc[1] = "folder" /\ FolderData[cur[1]].is_dir /\ ModuleUnresolvable(cur[1]))
            => /\ pc'[1] = "loop"
               /\ left'[1] = left[1] - 1
               /\ UNCHANGED <<db, txn, pending, lock, latest, lastIngested>> ]_vars

\* An invocation was given folder 4, whose module "liqdis" has no workbook,
\* and then folder 3, which it ingested.
C7_Witness ==
    /\ Len(log[1]) = 2
    /\ log[1][1] = Entry(4, "no_mapping", 0)
    /\ log[1][2] = Entry(3, "ingested", 1)
    /\ Partition(db, FolderKey(3)) = Batch[3].rows_to_insert
    /\ db # <<>>

\* C8: after an ingestion has been committed, every fact of the folder has
\* its row: value_raw is the fact's text as read and value is the number the
\* text parses to, null when it parses to none.
C8_CoercionKeepsRow ==
    lastIngested # 0 =>
        \A i \in 1..Len(Batch[lastIngested].csv_facts) :
            \E j \in 1..Len(db) :
                /\ db[j].datapoint = Batch[lastIngested].csv_facts[i].datapoint
                /\ db[j].value_raw = Batch[lastIngested].csv_facts[i].factValue
                /\ db[j].value = ParseFloat(Batch[lastIngested].csv_facts[i].factValue)

\* The template of a definition corresponds to a source file when the two
\* codes are equal up to letter case (K_60.00 and k_60.00).
TemplateOfFile(template, file) == Lower(template) = Lower(file)

\* The definitions the mapping of folder f has for a datapoint, in schema
\* order.
DefinitionsOf(f, dp) == SelectSeq(Batch[f].mapping, LAMBDA rec : rec.datapoint = dp)

\* C15: the definition attached to a merged fact is the one whose template
\* corresponds to the fact's source file, and the first definition of the
\* datapoint only when no definition corresponds to the source file.
C15_SourceFileDefinitionPreferred ==
    lastIngested # 0 =>
        \A j \in 1..Len(db) :
            InKey(db[j], FolderKey(lastIngested)) =>
                Let(DefinitionsOf(lastIngested, db[j].datapoint), LAMBDA defs :
                    IF \E k \in 1..Len(defs) : TemplateOfFile(defs[k].template, db[j].file)
                    THEN TemplateOfFile(db[j].template, db[j].file)
                    ELSE db[j].template = defs[1].template)

\* The rows of the table outside the partition of key, in table order.
OutsidePartition(table, key) == SelectSeq(table, LAMBDA row : ~InKey(row, key))

DefinedFacts(f) ==
    {i \in 1..Len(Batch[f].csv_facts) :
        \E k \in 1..Len(Batch[f].mapping) :
            Batch[f].mapping[k].datapoint = Batch[f].csv_facts[i].datapoint}

\* The counters and the prepared rows of folder f agree with each other and
\* with the facts that have a definition.
CountsConsistent(f) ==
    /\ Batch[f].matched + Batch[f].unmatched = Len(Batch[f].csv_facts)
    /\ Batch[f].matched = Cardinality(DefinedFacts(f))
    /\ Len(Batch[f].rows_to_insert) = Batch[f].matched

\* C25: when a call has prepared its rows, matched + unmatched is the number
\* of facts read, matched is the number of facts whose datapoint has a
\* definition in the mapping, and the call holds matched rows to insert;
\* after the commit the partition has matched rows.
C25_CountsConsistent ==
    /\ pc[1] = "ready" => (CountsConsistent(cur[1]) /\ Len(pending[1]) = Batch[cur[1]].matched)
    /\ lastIngested # 0 =>
          /\ CountsConsistent(lastIngested)
          /\ Len(Partition(db, FolderKey(lastIngested))) = Batch[lastIngested].matched

\* One invocation has ingested folder 8, whose two facts are defined by
\* the second sheet and by the first sheet of the workbook: both matched.
\* Then folder 1 is ingested, with one matched and one unmatched fact.
C25_Witness ==
    /\ lastIngested = 1
    /\ log[1] = <<Entry(8, "ingested", 2), Entry(1, "ingested", 1)>>
    /\ Batch[8].matched = 2 /\ Batch[8].unmatched = 0
    /\ Batch[1].matched = 1 /\ Batch[1].unmatched = 1
    /\ Len(Partition(db, FolderKey(1))) = 1
    /\ Len(Partition(db, FolderKey(8))) = 2

\* A fact file of folder f has a data row and no datapoint or no factValue
\* column.
LacksRequiredColumn(f) ==
    \E i \in 1..Len(FolderData[f].files) :
        Let(FolderData[f].files[i], LAMBDA file :
            /\ IsFactFile(file.name) /\ file.rows # <<>>
            /\ \/ \A k \in 1..Len(file.fields) : file.fields[k] # "datapoint"
               \/ \A k \in 1..Len(file.fields) : file.fields[k] # "factValue")

\* Reading the inputs of folder f fails: no mapping workbook for its
\* module, or a malformed fact file.
ReadingFails(f) == ModuleUnresolvable(f) \/ (~ModuleUnresolvable(f) /\ LacksRequiredColumn(f))

FailsToRead == [f \in Folders |-> FolderData[f].is_dir /\ ReadingFails(f)]

\* The number of facts of each folder that have a definition.
DefinedCount == [f \in Folders |-> Cardinality(DefinedFacts(f))]

\* C28: a call has the database open (its rows ready, or its DELETE issued)
\* only for a folder whose metadata, mapping and fact files were all read,
\* with a row prepared for every matched fact; and the step of a call whose
\* reading fails leaves the table, every transaction and the write lock as
\* they were, the call being over.
C28_ReadBeforeWrite ==
    /\ [](pc[1] \in {"ready", "deleted"} =>
            /\ ~FailsToRead[cur[1]]
            /\ Len(txn[1]) + Len(pending[1]) >= DefinedCount[cur[1]]
            /\ pc[1] = "ready" => (txn[1] = <<>> /\ Len(pending[1]) = DefinedCount[cur[1]]))
    /\ [][ (pc[1] = "folder" /\ FailsToRead[cur[1]]) =>
              /\ pc'[1] \in {"loop", "crashed"}
              /\ UNCHANGED <<db, txn, pending, lock, latest, lastIngested>> ]_vars

\* Folder 3 was ingested; then the call for folder 7, which has the same
\* partition and a fact file without factValue column, has raised: the
\* partition still holds the fact of folder 3.
C28_Witness ==
    /\ pc[1] = "crashed"
    /\ log[1] = <<Entry(3, "ingested", 1), Entry(7, "read_raised", 0)>>
    /\ LacksRequiredColumn(7)
    /\ FolderKey(7) = FolderKey(3)
    /\ Partition(db, FolderKey(7)) = Batch[3].rows_to_insert
    /\ Len(Partition(db, FolderKey(7))) = 1

(***************************************************************************)
(* Two command lines at once on one database file, each naming one folder. *)
(* Both connections are in WAL mode: a reader sees the rows of the last    *)
(* commit (db); the DELETE waits for the write lock while the other        *)
(* connection is inside its transaction, and raises "database is locked"   *)
(* (WriteFails) when the wait outlasts the timeout of the connection.      *)
(***************************************************************************)
\* main is started with one folder argument.
StartIngest(p) ==
    /\ pc[p] \in {"idle", "crashed"}
    /\ left' = [left EXCEPT ![p] = 1]
    /\ pc' = [pc EXCEPT ![p] = "loop"]
    /\ log' = [log EXCEPT ![p] = <<>>]
    /\ UNCHANGED <<db, cur, txn, pending, lock, latest, lastIngested, outsideIngest>>

NextRace ==
    \E p \in Procs :
        \/ StartIngest(p)
        \/ NextFolder(p)
        \/ SkipNotDir(p)
        \/ NoMapping(p)
        \/ ReadRaises(p)
        \/ Prepare(p)
        \/ Delete(p)
        \/ InsertRow(p)
        \/ Commit(p)
        \/ WriteFails(p)
        \/ Finish(p)

SpecRace == Init /\ [][NextRace]_vars

\* The step in which process p commits its transaction.
CommitsBy(p) == pc[p] = "deleted" /\ pc'[p] = "loop"

\* The rows some folder with partition key k prepares, or no rows at all.
IsOneRunOf(rows, k) ==
    rows = <<>> \/ \E f \in Folders : FolderKey(f) = k /\ rows = Batch[f].rows_to_insert

\* C22: with two runs at once, the table a reader sees changes only in the
\* step that commits one run's whole transaction; that step puts exactly
\* the rows of the run in the run's partition and leaves every other
\* partition as the reader saw it before, so a partition always holds the
\* rows of one run (never rows of two, never the emptied partition of a run
\* that has deleted and not yet inserted).
C22_RacingRunsSerialize ==
    /\ [](\A k \in Keys : IsOneRunOf(Partition(db, k), k))
    /\ [][ db' # db =>
              \E p \in Procs :
                  /\ CommitsBy(p)
                  /\ Partition(db', CurKey(p)) = Batch[cur[p]].rows_to_insert
                  /\ \A k \in Keys \ {CurKey(p)} : Partition(db', k) = Partition(db, k) ]_vars

\* Folder 2 has been ingested; now process 1 has deleted the partition and
\* inserted the row of folder 1 in its transaction while process 2 has the
\* rows of folder 2 ready for the same partition, and a reader still sees
\* the two rows of folder 2.
C22_Witness ==
    /\ pc[1] = "deleted" /\ cur[1] = 1 /\ pending[1] = <<>>
    /\ pc[2] = "ready" /\ cur[2] = 2
    /\ FolderKey(1) = FolderKey(2)
    /\ Partition(txn[1], FolderKey(1)) = Batch[1].rows_to_insert
    /\ Partition(db, FolderKey(1)) = Batch[2].rows_to_insert
    /\ Batch[1].rows_to_insert # Batch[2].rows_to_insert

(***************************************************************************)
(* build_mapping on its own, over a family of workbooks: one template      *)
(* sheet with three data columns whose group-label row, sub-label row and  *)
(* datapoint cells vary, with or without a second template sheet that      *)
(* defines one of the datapoints again, and one file without a TOC sheet.  *)
(***************************************************************************)
GroupRows ==
    { <<"Gross", "", "Net">>, <<"Gross", "", "">>, <<"", "Gross", "">>,
      <<"(q) dim", "", "Net">>, <<"Gross", "(q) dim", "">> }

SubRows == { <<"", "", "">>, <<"a. T", "b. T-1", "c. T-2">>, <<"", "b. T-1", "">> }

\* The datapoint cells of the first data row, and of the second.
FirstCells == { <<"101_x000D_\n€£$", "102_x000D_\n%", "103">>, <<"101", "101_x000D_\n%", "103">> }

SecondCells == { <<"", "", "">>, <<"103_x000D_\n#", "", "101">> }

LayoutSheet(group_row, sub_row, first, second) ==
    [ name |-> "K_61.00",
      rows |-> << <<"K_61.00 - EU KM1", "", "", "", "", "">>,
                  <<"Columns", "", "", "Amounts", "", "">>,
                  <<"", "", "">> \o group_row,
                  <<"", "", "">> \o sub_row,
                  <<"", "", "", "0010", "0020", "0030">>,
                  <<"Rows", "Total capital", "0010">> \o first,
                  <<"", "Tier 1 capital", "0020">> \o second,
                  <<"", "Main Property", "", "", "", "">> >> ]

LayoutBook(sheet, more) ==
    [ name   |-> "layout.xlsx",
      sheets |-> << TocSheet(<< <<"K_61.00", "Key metrics">> >>), sheet >> \o more ]

NoTocBook == [name |-> "layout.xlsx", sheets |-> <<Sheet6100>>]

Workbooks ==
    { LayoutBook(LayoutSheet(g, s, c1, c2), more) :
          g \in GroupRows, s \in SubRows, c1 \in FirstCells, c2 \in SecondCells,
          more \in {<<>>, <<Sheet6000>>} }
    \cup {NoTocBook}

InitMap ==
    /\ InitIngest
    /\ wb \in Workbooks
    /\ mpc = "start"
    /\ all_records = <<>>
    /\ unique = <<>>
    /\ InitRebuild
    /\ call = NoCall

\* wb["TOC"] of _parse_toc raises KeyError, or a sheet's parse raises.
MappingRaises ==
    /\ mpc = "start"
    /\ ~HasSheet(wb, "TOC") \/ AllRecords(wb, 1, <<>>).raised
    /\ mpc' = "raised"
    /\ UNCHANGED <<db, pc, cur, left, txn, pending, lock, latest, lastIngested, log,
                   wb, all_records, unique, call, rebuildVars>>

\* _parse_toc and the loop over wb.sheetnames.
ParseSheets ==
    /\ mpc = "start"
    /\ HasSheet(wb, "TOC")
    /\ Let(AllRecords(wb, 1, ParseToc(wb)), LAMBDA all :
           ~all.raised /\ all_records' = all.records)
    /\ mpc' = "parsed"
    /\ UNCHANGED <<db, pc, cur, left, txn, pending, lock, latest, lastIngested, log, wb, unique, call, rebuildVars>>

\* Deduplicate by (datapoint, template), and return.
Deduplicate ==
    /\ mpc = "parsed"
    /\ unique' = Dedup(all_records, 1, {})
    /\ mpc' = "done"
    /\ UNCHANGED <<db, pc, cur, left, txn, pending, lock, latest, lastIngested, log, wb, all_records, call,
                   rebuildVars>>

NextMap == MappingRaises \/ ParseSheets \/ Deduplicate

SpecMap == InitMap /\ [][NextMap]_vars

(***************************************************************************)
(* Properties of build_mapping and _parse_mapping_sheet, checked under     *)
(* SpecMap.                                                                *)
(***************************************************************************)
\* C9: what build_mapping returns has no two records with the same
\* (datapoint, template); every pair that was parsed is in it; and each
\* record of it is, unchanged, the first record of its pair in parse order,
\* the survivors keeping that order.
C9_FirstSeenWins ==
    mpc = "done" =>
        /\ \A i, j \in 1..Len(unique) :
              i # j => DedupKey(unique[i]) # DedupKey(unique[j])
        /\ \A i \in 1..Len(all_records) :
              \E j \in 1..Len(unique) : DedupKey(unique[j]) = DedupKey(all_records[i])
        /\ \A j \in 1..Len(unique) :
              \E i \in 1..Len(all_records) :
                  /\ all_records[i] = unique[j]
                  /\ \A h \in 1..(i - 1) : DedupKey(all_records[h]) # DedupKey(unique[j])
                  /\ \A g \in 1..(j - 1) :
                        \E h \in 1..(i - 1) : all_records[h] = unique[g]

\* A sheet defined one (datapoint, template) pair in two columns: two parsed
\* records with different column codes, of which the first was returned.
C9_Witness ==
    /\ mpc = "done"
    /\ Len(unique) < Len(all_records)
    /\ \E i, j \in 1..Len(all_records) :
          /\ i < j
          /\ DedupKey(all_records[i]) = DedupKey(all_records[j])
          /\ all_records[i].col_code # all_records[j].col_code
          /\ \E h \in 1..Len(unique) : unique[h] = all_records[i]
          /\ \A h \in 1..Len(unique) : unique[h] # all_records[j]

\* The sheet K_61.00 of a workbook of the family, and the cell of its header
\* (2), group-label (3), sub-label (4) or column-code (5) row over data
\* column c.
LayoutCell(book, row, c) == book.sheets[2].rows[row][c + 3]

IsLayoutBook(book) == Len(book.sheets) >= 2 /\ book.sheets[2].name = "K_61.00"

\* The data column of a record of K_61.00: the one with its column code.
ColumnOf(book, r) == CHOOSE c \in 1..3 : LayoutCell(book, 5, c) = r.col_code

\* The label carried into column c: the group label of the nearest column at
\* or left of c that has one, dimension-property columns apart; "" if none.
CarriedGroup(book, c) ==
    LET labelled == {d \in 1..c : /\ LayoutCell(book, 3, d) # ""
                                  /\ ~IsDimensionColumn(LayoutCell(book, 2, d),
                                                        LayoutCell(book, 3, d))}
    IN  IF labelled = {} THEN "" ELSE LayoutCell(book, 3, MaxOf(labelled))

LayoutRecords == SelectSeq(all_records, LAMBDA r : r.template = "K_61.00")

HasTocEntry(book, sname) ==
    \E i \in 1..Len(ParseToc(book)) : ParseToc(book)[i][1] = sname

HeaderBlockLocated(rows_raw) ==
    /\ Len(rows_raw) >= 5
    /\ Len(RowAt(rows_raw, CodeRowIdx(rows_raw))) > 3
    /\ IsCode4(CellStr(RowAt(rows_raw, CodeRowIdx(rows_raw)), 3))

IsMalformed(book, sh) ==
    sh.name # "TOC" /\ (~HasTocEntry(book, sh.name) \/ ~HeaderBlockLocated(sh.rows))

WithoutMalformed(book) ==
    [book EXCEPT !.sheets = SelectSeq(book.sheets, LAMBDA sh : ~IsMalformed(book, sh))]

\* C12: a malformed sheet contributes no record to build_mapping's result,
\* the records of the other sheets are those of the workbook without the
\* malformed sheets, and no sheet makes build_mapping raise.
C12_MalformedSheetIsolated ==
    HasSheet(wb, "TOC") =>
        /\ mpc # "raised"
        /\ mpc = "done" =>
            /\ \A i \in 1..Len(wb.sheets) : \A k \in 1..Len(unique) :
                   IsMalformed(wb, wb.sheets[i]) => unique[k].template # wb.sheets[i].name
            /\ unique = BuildMapping(WithoutMalformed(wb)).records

(***************************************************************************)
(* ingest_folder, step 1, on its own: the entity identifier of             *)
(* parameters.csv is normalized and resolved to a display name.            *)
(***************************************************************************)
\* entityID values: a tag or none, in either case, twice, or behind a blank;
\* an LEI of LEI_NAMES, one outside it, the key LEI_NAMES holds with two
\* trailing blanks, nothing; a scope suffix or none, or one behind a blank.
IdTags == {"", "rs:", "RS:", "lei:", "Lei:", "rs:lei:", " lei:"}

IdBodies == {"213800MBWEIJDM5CU638", "549300ABC123", "549300DIFDNI4Q13  ", ""}

IdSuffixes == {"", ".CON", ".IND.X", " .CON"}

EntityIds == {t \o b \o x : t \in IdTags, b \in IdBodies, x \in IdSuffixes} \cup {"UNKNOWN"}

InitLei ==
    /\ InitIngest
    /\ wb = FindisBook
    /\ mpc = "start"
    /\ all_records = <<>>
    /\ unique = <<>>
    /\ InitRebuild
    /\ \E lei_raw \in EntityIds :
           call = [fn |-> "ingest_folder", args |-> <<lei_raw>>, ret |-> <<>>, returned |-> FALSE]

\* lei = re.sub(...); lei = lei.split(".")[0].strip(); entity = _lei_to_name(lei_raw)
ReadEntity ==
    /\ call.fn = "ingest_folder" /\ ~call.returned
    /\ call' = [call EXCEPT !.ret = [ lei    |-> NormalizeLei(call.args[1]),
                                     entity |-> LeiToName(call.args[1]) ],
                            !.returned = TRUE]
    /\ UNCHANGED <<db, pc, cur, left, txn, pending, lock, latest, lastIngested, log, mapVars,
                   rebuildVars>>

NextLei == ReadEntity

SpecLei == InitLei /\ [][NextLei]_vars

(***************************************************************************)
(* Properties of the entity identifier, checked under SpecLei.             *)
(***************************************************************************)
KnownTags == {"rs:", "lei:"}

\* id without the known tag it starts with, if it starts with one.
WithoutTag(id) ==
    Let({t \in KnownTags : Lower(Sub(id, 1, Len(t))) = t}, LAMBDA tags :
        IF tags = {} THEN id
        ELSE Sub(id, Len(CHOOSE t \in tags : TRUE) + 1, Len(id)))

\* s up to its first ".", all of s when it has none.
UpToDot(s) ==
    Sub(s, 1, CHOOSE n \in 0..Len(s) :
                  /\ \A i \in 1..n : Char(s, i) # "."
                  /\ n = Len(s) \/ Char(s, n + 1) = ".")

Blanks == {" ", "\t", "\n", "\r"}

\* t is s without the blanks at its two ends.
IsTrimOf(t, s) ==
    \E i \in 1..(Len(s) + 1) : \E j \in 0..Len(s) :
        /\ t = Sub(s, i, j)
        /\ \A k \in 1..Len(s) : (k < i \/ k > j) => Char(s, k) \in Blanks
        /\ t # "" => (Char(t, 1) \notin Blanks /\ Char(t, Len(t)) \notin Blanks)

InNameTable(id) == \E i \in 1..Len(LEI_NAMES) : LEI_NAMES[i][1] = id

NameOf(id) == LEI_NAMES[CHOOSE i \in 1..Len(LEI_NAMES) : LEI_NAMES[i][1] = id][2]

\* The entity a normalized identifier resolves to.
Resolved(norm) == IF InNameTable(norm) THEN NameOf(norm) ELSE norm

\* C11 as stated: the identifier is normalized by removing a leading known
\* tag ("rs:" or "lei:", any case) and everything from the first "." on; the
\* stored lei is that form, and the entity is the name the table has for it,
\* or the form itself.
C11_TagAndSuffixOnly ==
    (call.fn = "ingest_folder" /\ call.returned) =>
        Let(UpToDot(WithoutTag(call.args[1])), LAMBDA norm :
            /\ call.ret.lei = norm
            /\ call.ret.entity = Resolved(norm))

\* C11, amended: the identifier is normalized by removing a leading known
\* tag and everything from the first "." on, and the blanks at both ends of
\* what is left; the stored lei is that form, and the entity is the name the
\* table has for it, or the form itself when the table has none.
C11_NormalizedThenLookedUp ==
    (call.fn = "ingest_folder" /\ call.returned) =>
        /\ IsTrimOf(call.ret.lei, UpToDot(WithoutTag(call.args[1])))
        /\ call.ret.entity = Resolved(call.ret.lei)

\* The scenario of the specification, an identifier outside the table: it
\* resolves to its normalized form.
C11_Witness ==
    /\ call.fn = "ingest_folder" /\ call.returned
    /\ call.args[1] = "lei:549300ABC123.CON"
    /\ call.ret = [lei |-> "549300ABC123", entity |-> "549300ABC123"]

(***************************************************************************)
(* Folders with different entity identifiers, checked under Spec.          *)
(***************************************************************************)
\* What parameters.csv of folder f says under a name, "" when it says
\* nothing.
ParameterOf(f, name) ==
    IF FolderData[f].has_params THEN PairsGet(FolderData[f].params, name, "") ELSE ""

\* Folders f and g report under different entity identifiers that are the
\* same once tag and scope suffix are taken off, for the same period and
\* module.
DifferInTagOrScopeOnly(f, g) ==
    /\ FolderData[f].is_dir /\ FolderData[g].is_dir
    /\ FolderData[f].has_params /\ FolderData[g].has_params
    /\ ParameterOf(f, "entityID") # ParameterOf(g, "entityID")
    /\ UpToDot(WithoutTag(ParameterOf(f, "entityID")))
           = UpToDot(WithoutTag(ParameterOf(g, "entityID")))
    /\ ParameterOf(f, "refPeriod") = ParameterOf(g, "refPeriod")
    /\ ReadModule(FolderData[f]) = ReadModule(FolderData[g])

\* Whether two folders differ so, for every two folders.
SharesScope == [f \in Folders |-> [g \in Folders |-> DifferInTagOrScopeOnly(f, g)]]

\* C26: two folders whose entity identifiers differ only in the tag or in
\* the scope after the first "." and whose period and module are equal have
\* the same partition key, and the step that commits the ingestion of one
\* leaves in that partition the rows of this ingestion only: every stored
\* fact of the other is gone.
C26_ScopesShareAPartition ==
    /\ [](\A f, g \in Folders : SharesScope[f][g] => FolderKey(f) = FolderKey(g))
    /\ [][ IsCommitStep =>
              \A f \in Folders :
                  SharesScope[f][cur[1]] =>
                      Partition(db', FolderKey(f)) = Batch[cur[1]].rows_to_insert ]_vars

\* The consolidated report of folder 1 ("lei:213800MBWEIJDM5CU638.CON") was
\* ingested and then the individual report of folder 2
\* ("213800MBWEIJDM5CU638.IND"): the value "45.6" of the consolidated report
\* is stored no more.
C26_Witness ==
    /\ SharesScope[1][2]
    /\ log[1] = <<Entry(1, "ingested", 1), Entry(2, "ingested", 2)>>
    /\ Batch[1].rows_to_insert[1].value_raw = "45.6"
    /\ \A i \in 1..Len(db) : db[i].value_raw # "45.6"
    /\ {db[i].value_raw : i \in 1..Len(db)} = {" 45.60", "n/a"}

\* parameters.csv of folder f exists and has a row of this name.
HasParameter(f, name) ==
    /\ FolderData[f].has_params
    /\ \E i \in 1..Len(FolderData[f].params) : FolderData[f].params[i][1] = name

NoParameters(f) == FolderData[f].is_dir /\ ~FolderData[f].has_params

\* The module report.json of each folder names.
ModuleOf == [f \in Folders |-> ReadModule(FolderData[f])]

\* C27: the rows of a committed ingestion carry lei "UNKNOWN" when the
\* folder has no entityID, ref_period "UNKNOWN" when it has no refPeriod and
\* currency "EUR" when it has no baseCurrency (parameters.csv absent, or
\* without that row); and when an ingestion of a folder without
\* parameters.csv commits, the partition ("UNKNOWN", "UNKNOWN", module)
\* holds its rows only, whichever folder without parameters.csv and with
\* that module was stored there before.
C27_MissingMetadataDefaults ==
    /\ [](lastIngested # 0 =>
            \A i \in 1..Len(latest[FolderKey(lastIngested)]) :
                Let(latest[FolderKey(lastIngested)][i], LAMBDA row :
                    /\ ~HasParameter(lastIngested, "entityID") => row.lei = "UNKNOWN"
                    /\ ~HasParameter(lastIngested, "refPeriod") => row.ref_period = "UNKNOWN"
                    /\ ~HasParameter(lastIngested, "baseCurrency") => row.currency = "EUR"
                    /\ \E j \in 1..Len(db) : db[j] = row))
    /\ [][ (IsCommitStep /\ NoParameters(cur[1])) =>
              \A f \in Folders :
                  (NoParameters(f) /\ ModuleOf[f] = ModuleOf[cur[1]]) =>
                      /\ FolderKey(f) = <<"UNKNOWN", "UNKNOWN", ModuleOf[f]>>
                      /\ Partition(db', FolderKey(f)) = Batch[cur[1]].rows_to_insert ]_vars

\* Folder 8 and then folder 9 were ingested, neither with a parameters.csv,
\* both of module findis: the partition ("UNKNOWN", "UNKNOWN", "findis")
\* holds the one fact of folder 9 in EUR and nothing of folder 8.
C27_Witness ==
    /\ NoParameters(8) /\ NoParameters(9)
    /\ log[1] = <<Entry(8, "ingested", 2), Entry(9, "ingested", 1)>>
    /\ Len(Partition(db, <<"UNKNOWN", "UNKNOWN", "findis">>)) = 1
    /\ \A i \in 1..Len(db) :
          /\ db[i].datapoint = "dp102" /\ db[i].file = "k_61.00"
          /\ db[i].lei = "UNKNOWN" /\ db[i].currency = "EUR"

(***************************************************************************)
(* loader.py: the friendly names of the templates.                         *)
(***************************************************************************)
UpperChar(c) == IF c \in LowerSet THEN Char(UpperChars, IndexIn(LowerChars, c)) ELSE c

\* str.upper(), the text split in halves as in Lower.
RECURSIVE Upper(_)
Upper(s) ==
    IF Len(s) <= 1 THEN UpperChar(s)
    ELSE Upper(SubSeq(s, 1, Len(s) \div 2)) \o Upper(SubSeq(s, Len(s) \div 2 + 1, Len(s)))

\* str.replace(old, new) from position i on, for a non-empty old.
RECURSIVE ReplaceFrom(_, _, _, _)
ReplaceFrom(s, old, new, i) ==
    IF i > Len(s) THEN ""
    ELSE IF Sub(s, i, i + Len(old) - 1) = old
         THEN new \o ReplaceFrom(s, old, new, i + Len(old))
         ELSE Char(s, i) \o ReplaceFrom(s, old, new, i + 1)

\* group -> file codes, in the order of the dict (the dash of the two
\* Liquidity labels is an en dash in the source).
TEMPLATE_GROUPS ==
    << <<"Key Metrics (EU KM1)", <<"K_61.00">> >>,
       <<"RWA Overview (EU OV1)", <<"K_60.00.a", "K_60.00.b">> >>,
       <<"Capital Composition (EU CC1/CC2)",
         <<"K_63.01.a", "K_63.01.b", "K_63.01.c", "K_63.01.d", "K_63.01.e">> >>,
       <<"Leverage & MREL (EU LR/TLAC)", <<"K_63.02.a", "K_63.02.b", "K_63.02.c">> >>,
       <<"Credit Risk RWEA Flows (EU CR8)", <<"K_28.00">> >>,
       <<"Credit Risk (EU CR1)", <<"K_07.00">> >>,
       <<"Market Risk RWEA Flows (EU MR2-B)", <<"K_12.00">> >>,
       <<"IRRBB (EU IRRBB1)", <<"K_68.00">> >>,
       <<"Liquidity - LCR (EU LIQ1)", <<"K_73.00.a", "K_73.00.b">> >>,
       <<"Liquidity - NSFR (EU LIQ2)", <<"K_73.00.c", "K_73.00.d", "K_73.00.e">> >>,
       <<"Qualitative Disclosures", <<"K_00.02">> >> >>

\* `upper in templates`, a variant that compares the code as it is written.
InGroupAsWritten(file_stem, templates) ==
    \E k \in 1..Len(templates) : templates[k] = file_stem

\* `upper in [t.upper() for t in templates]`
InGroup(file_stem, templates) ==
    Let(ReplaceFrom(Upper(file_stem), "K_", "K_", 1), LAMBDA upper :
        \E k \in 1..Len(templates) : Upper(templates[k]) = upper)

\* get_template_group: the first group of the dict that lists the code,
\* else the code.
GetTemplateGroup(file_stem) ==
    Let({i \in 1..Len(TEMPLATE_GROUPS) : InGroup(file_stem, TEMPLATE_GROUPS[i][2])}, LAMBDA hits :
        IF hits = {} THEN file_stem ELSE TEMPLATE_GROUPS[MinOf(hits)][1])

\* The file codes get_template_group is applied to: every code of
\* TEMPLATE_GROUPS as written, in lower case (the stem of a k_*.csv file), in
\* upper case and with only the prefix lowered, and codes the table lacks.
TableCodes ==
    UNION {{TEMPLATE_GROUPS[i][2][k] : k \in 1..Len(TEMPLATE_GROUPS[i][2])} :
               i \in 1..Len(TEMPLATE_GROUPS)}

OtherCodes ==
    {"", "k_60.00", "k_99.99", "K_61.00 ", "k_61.00.csv", "p_61.00", "k_63.01.f", "61.00"}

FileCodes ==
    UNION {{t, Lower(t), Upper(t), "k_" \o Sub(t, 3, Len(t))} : t \in TableCodes} \cup OtherCodes

InitGroup ==
    /\ InitIngest
    /\ wb = FindisBook
    /\ mpc = "start"
    /\ all_records = <<>>
    /\ unique = <<>>
    /\ InitRebuild
    /\ \E file_stem \in FileCodes :
           call = [fn |-> "get_template_group", args |-> <<file_stem>>, ret |-> <<>>,
                   returned |-> FALSE]

\* merged["group"] = merged["file"].apply(get_template_group), for one file.
ApplyGetTemplateGroup ==
    /\ call.fn = "get_template_group" /\ ~call.returned
    /\ call' = [call EXCEPT !.ret = <<GetTemplateGroup(call.args[1])>>, !.returned = TRUE]
    /\ UNCHANGED <<db, pc, cur, left, txn, pending, lock, latest, lastIngested, log, mapVars,
                   rebuildVars>>

NextGroup == ApplyGetTemplateGroup

SpecGroup == InitGroup /\ [][NextGroup]_vars

(***************************************************************************)
(* Properties of get_template_group, checked under SpecGroup.              *)
(***************************************************************************)
\* Two texts that differ at most in the case of their letters.
SameLetter(c, d) ==
    c = d \/ \E k \in 1..Len(UpperChars) : {c, d} = {Char(UpperChars, k), Char(LowerChars, k)}

EqualIgnoringCase(a, b) ==
    Len(a) = Len(b) /\ \A i \in 1..Len(a) : SameLetter(Char(a, i), Char(b, i))

\* The group labels of the table that list a code equal to `code`, case
\* ignored.
GroupsListing(code) ==
    {TEMPLATE_GROUPS[i][1] : i \in {j \in 1..Len(TEMPLATE_GROUPS) :
        \E k \in 1..Len(TEMPLATE_GROUPS[j][2]) : EqualIgnoringCase(TEMPLATE_GROUPS[j][2][k], code)}}

\* C13: get_template_group always returns a group; for a code that equals,
\* letter case ignored, a code of the friendly-name table it is that table's
\* group label, and for any other code it is the code itself, unchanged.
C13_GroupAlwaysDerivable ==
    (call.fn = "get_template_group" /\ call.returned) =>
        /\ Len(call.ret) = 1
        /\ IF GroupsListing(call.args[1]) # {}
           THEN call.ret[1] \in GroupsListing(call.args[1])
           ELSE call.ret[1] = call.args[1]

\* The stem of k_73.00.c.csv, in lower case, is given the group of K_73.00.c.
C13_Witness ==
    /\ call.fn = "get_template_group" /\ call.returned
    /\ call.args[1] = "k_73.00.c"
    /\ call.ret[1] = "Liquidity - NSFR (EU LIQ2)"

(***************************************************************************)
(* mapping.py: the parser of the single-entity workflow.  Its sheets have  *)
(* the column labels in row index 4, the column codes in row index 5 and   *)
(* the data rows from row index 6 on.                                      *)
(***************************************************************************)
\* mapping._parse_dp_cell: the loop over UNIT_MAP (the same dict as in
\* ingest_p3dh.py) breaks at the first marker the text contains.
RECURSIVE MappingUnitFrom(_, _)
MappingUnitFrom(text, i) ==
    IF i > Len(UNIT_MAP) THEN ""
    ELSE IF Contains(text, UNIT_MAP[i][1]) THEN UNIT_MAP[i][2]
    ELSE MappingUnitFrom(text, i + 1)

MappingParseDpCell(cell_value) ==
    Let(Strip(cell_value), LAMBDA text :
    Let(DigitRunEnd(text, 1), LAMBDA en :
        IF en < 1 THEN [none |-> TRUE, dp_id |-> "", unit |-> ""]
        ELSE [none |-> FALSE, dp_id |-> "dp" \o Sub(text, 1, en),
              unit |-> MappingUnitFrom(text, 1)]))

\* col_info of _parse_sheet: (label, code) per column from column D on.
SheetColInfo(col_labels_row, col_codes_row) ==
    [k \in 1..Max(0, Max(Len(col_labels_row), Len(col_codes_row)) - 3) |->
        [col_label |-> CellStr(col_labels_row, k + 2), col_code |-> CellStr(col_codes_row, k + 2)]]

\* The inner loop `for ci in range(3, len(row))` of _parse_sheet from ci on.
RECURSIVE SheetRowRecords(_, _, _, _)
SheetRowRecords(row, ci, col_info, ctx) ==
    IF ci >= Len(row) THEN <<>>
    ELSE Let(MappingParseDpCell(row[ci + 1]), LAMBDA dp :
         LET col_idx == ci - 3
             rest    == SheetRowRecords(row, ci + 1, col_info, ctx)
             col     == IF col_idx < Len(col_info) THEN col_info[col_idx + 1]
                        ELSE [col_label |-> "", col_code |-> ""]
         IN  IF dp.none THEN rest
             ELSE << [ datapoint      |-> dp.dp_id,
                       template       |-> ctx.sheet_name,
                       template_title |-> ctx.template_title,
                       row_label      |-> ctx.row_label,
                       row_code       |-> ctx.row_code,
                       col_label      |-> col.col_label,
                       col_code       |-> col.col_code,
                       unit           |-> dp.unit ] >> \o rest)

\* A variant of the sentinel test that ignores column A.
SentinelEndsBlockAnywhere(row, row_label) == row_label = "Main Property"

\* `row_label in ("Main Property", "") and row[0] is None`, then
\* `row_label == "Main Property"`: the row at which the loop breaks.
SentinelEndsBlock(row, row_label) == row_label = "Main Property" /\ row[1] = ""

\* The outer loop `for ri in range(6, len(rows_raw))` of _parse_sheet from
\* ri on.
RECURSIVE SheetDataRecords(_, _, _, _)
SheetDataRecords(rows_raw, ri, col_info, ctx) ==
    IF ri >= Len(rows_raw) THEN <<>>
    ELSE Let(RowAt(rows_raw, ri), LAMBDA row :
         Let(CellStr(row, 1), LAMBDA row_label :
         Let(CellStr(row, 2), LAMBDA row_code :
         LET rest == SheetDataRecords(rows_raw, ri + 1, col_info, ctx)
         IN  IF Len(row) < 4 THEN rest
             ELSE IF SentinelEndsBlock(row, row_label) THEN <<>>
             ELSE IF row_code = "" THEN rest
             ELSE SheetRowRecords(row, 3, col_info,
                      [ctx EXCEPT !.row_label = row_label, !.row_code = row_code]) \o rest)))

\* _parse_sheet: [raised, records].
ParseSheet(rows_raw, sheet_name, toc) ==
    IF Len(rows_raw) < 7 THEN [raised |-> FALSE, records |-> <<>>]
    ELSE IF Len(rows_raw[1]) = 0 THEN [raised |-> TRUE, records |-> <<>>]
    ELSE [ raised  |-> FALSE,
           records |-> SheetDataRecords(rows_raw, 6,
                           SheetColInfo(RowAt(rows_raw, 4), RowAt(rows_raw, 5)),
                           [ sheet_name     |-> sheet_name,
                             template_title |-> TemplateTitle(rows_raw, sheet_name, toc),
                             row_label      |-> "",
                             row_code       |-> "" ]) ]

\* The loop over wb.sheetnames of mapping.build_mapping from sheet i on.
RECURSIVE BookRecords(_, _, _)
BookRecords(book, i, toc) ==
    IF i > Len(book.sheets) THEN [raised |-> FALSE, records |-> <<>>]
    ELSE IF book.sheets[i].name = "TOC" THEN BookRecords(book, i + 1, toc)
    ELSE Let(ParseSheet(book.sheets[i].rows, book.sheets[i].name, toc), LAMBDA one :
         Let(BookRecords(book, i + 1, toc), LAMBDA rest :
             IF one.raised \/ rest.raised THEN [raised |-> TRUE, records |-> <<>>]
             ELSE [raised |-> FALSE, records |-> one.records \o rest.records]))

\* The loop over (CODI_XLSX, IRRBB_XLSX): books is the pair of
\* [exists, book]; a workbook without TOC sheet raises KeyError.
RECURSIVE WorkbookRecords(_, _)
WorkbookRecords(books, i) ==
    IF i > Len(books) THEN [raised |-> FALSE, records |-> <<>>]
    ELSE IF ~books[i].exists THEN WorkbookRecords(books, i + 1)
    ELSE IF ~HasSheet(books[i].book, "TOC") THEN [raised |-> TRUE, records |-> <<>>]
    ELSE Let(BookRecords(books[i].book, 1, ParseToc(books[i].book)), LAMBDA one :
         Let(WorkbookRecords(books, i + 1), LAMBDA rest :
             IF one.raised \/ rest.raised THEN [raised |-> TRUE, records |-> <<>>]
             ELSE [raised |-> FALSE, records |-> one.records \o rest.records]))

\* mapping.build_mapping: drop_duplicates(subset=["datapoint", "template"])
\* keeps the first row of each pair; on a frame without any record (and so
\* without columns) it raises KeyError.
MappingBuildMapping(books) ==
    Let(WorkbookRecords(books, 1), LAMBDA all :
        IF all.raised \/ all.records = <<>> THEN [raised |-> TRUE, records |-> <<>>]
        ELSE [raised |-> FALSE, records |-> Dedup(all.records, 1, {})])

(***************************************************************************)
(* loader.load_raw_data and ingest.py's ingest.  A frame is the sequence   *)
(* of its rows.  A factValue of the raw frame is a number [m, e], a text   *)
(* [text |-> s] or Null (NaN): pd.read_csv turns a column into numbers     *)
(* when every cell that is not a missing-value marker is a number, and     *)
(* leaves text otherwise.  (Whether a number is stored as INTEGER or REAL  *)
(* is not modelled.)                                                       *)
(***************************************************************************)
\* The cells pd.read_csv reads as missing by default.
NA_VALUES ==
    {"", "#N/A", "#N/A N/A", "#NA", "-1.#IND", "-1.#QNAN", "-NaN", "-nan", "1.#IND",
     "1.#QNAN", "<NA>", "N/A", "NA", "NULL", "NaN", "None", "n/a", "nan", "null"}

IsNumberColumn(cells) ==
    \A i \in 1..Len(cells) : cells[i] \in NA_VALUES \/ ParseFloat(cells[i]) # Null

\* One cell of a column read by pd.read_csv.
CsvCell(cell, numbers) ==
    IF cell \in NA_VALUES THEN Null
    ELSE IF numbers THEN ParseFloat(cell) ELSE [text |-> cell]

\* pd.read_csv(csv_path) with df["file"] = csv_path.stem, for a file with
\* the columns datapoint and factValue.
ReadCsv(file) ==
    Let(IsNumberColumn([i \in 1..Len(file.rows) |-> FieldOf(file, file.rows[i], "factValue")]),
        LAMBDA numbers :
        [i \in 1..Len(file.rows) |->
            [ datapoint |-> FieldOf(file, file.rows[i], "datapoint"),
              factValue |-> CsvCell(FieldOf(file, file.rows[i], "factValue"), numbers),
              file      |-> Stem(file.name) ]])

RECURSIVE ConcatFrames(_)
ConcatFrames(files) ==
    IF files = <<>> THEN <<>> ELSE ReadCsv(Head(files)) \o ConcatFrames(Tail(files))

\* load_raw_data: FileNotFoundError when the directory has no k_*.csv.
LoadRawData(data_dir) ==
    Let(SortedFactFiles(data_dir), LAMBDA csv_paths :
        IF csv_paths = <<>> THEN [raised |-> TRUE, rows |-> <<>>]
        ELSE [raised |-> FALSE, rows |-> ConcatFrames(csv_paths)])

\* pd.to_numeric(..., errors="coerce") of one value.
ToNumeric(v) ==
    IF v = Null THEN Null
    ELSE IF "text" \in DOMAIN v THEN ParseFloat(v.text)
    ELSE v

\* One row of raw.merge(mapping, on="datapoint", how="left") with the two
\* columns ingest adds; rec is the mapping row, or Null for no match.
MergedRow(raw_row, rec) ==
    [ datapoint      |-> raw_row.datapoint,
      factValue      |-> raw_row.factValue,
      file           |-> raw_row.file,
      template       |-> IF rec = Null THEN NullText ELSE rec.template,
      template_title |-> IF rec = Null THEN NullText ELSE rec.template_title,
      row_label      |-> IF rec = Null THEN NullText ELSE rec.row_label,
      row_code       |-> IF rec = Null THEN NullText ELSE rec.row_code,
      col_label      |-> IF rec = Null THEN NullText ELSE rec.col_label,
      col_code       |-> IF rec = Null THEN NullText ELSE rec.col_code,
      unit           |-> IF rec = Null THEN NullText ELSE rec.unit,
      factNumeric    |-> ToNumeric(raw_row.factValue),
      group          |-> GetTemplateGroup(raw_row.file) ]

\* The rows a raw row gives: one per mapping row of its datapoint, in the
\* order of the mapping; one without mapping columns when there is none.
MergeOne(raw_row, mapping) ==
    Let(SelectSeq(mapping, LAMBDA rec : rec.datapoint = raw_row.datapoint), LAMBDA hits :
        IF hits = <<>> THEN <<MergedRow(raw_row, Null)>>
        ELSE [k \in 1..Len(hits) |-> MergedRow(raw_row, hits[k])])

RECURSIVE Merge(_, _, _)
Merge(raw, mapping, i) ==
    IF i > Len(raw) THEN <<>> ELSE MergeOne(raw[i], mapping) \o Merge(raw, mapping, i + 1)

\* Steps 1 to 3 of ingest: [raised, frames].
ComputeFrames(snap) ==
    Let(MappingBuildMapping(snap.books), LAMBDA mapping :
    Let(LoadRawData(snap.data_dir), LAMBDA raw :
        IF mapping.raised \/ raw.raised THEN [raised |-> TRUE, frames |-> NoFrames]
        ELSE [ raised |-> FALSE,
               frames |-> [ mapping     |-> mapping.records,
                            raw_data    |-> raw.rows,
                            mapped_data |-> Merge(raw.rows, mapping.records, 1) ] ]))

(***************************************************************************)
(* The inputs of ingest: the two workbooks of the Mapping directory and    *)
(* the files of the data directory, as they are when a run starts.         *)
(***************************************************************************)
\* A template sheet in the layout of mapping.py.
TableSheet(name, title, labels, codes, data) ==
    [ name |-> name,
      rows |-> << <<title, "", "", "", "">>,
                  <<"", "", "", "", "">>,
                  <<"", "", "", "", "">>,
                  <<"Columns", "", "", "", "">>,
                  <<"", "", "">> \o labels,
                  <<"", "", "">> \o codes >> \o data ]

SheetCr1 ==
    TableSheet("K_07.00", "K_07.00 - EU CR1", <<"a. Gross", "b. Net">>, <<"0010", "0020">>,
        << <<"Rows", "Loans", "0010", "201_x000D_\n€£$", "202_x000D_\n%">>,
           <<"", "Main Property", "", "", "">> >>)

SheetCr8 ==
    TableSheet("K_28.00", "K_28.00 - EU CR8", <<"a. RWEA", "">>, <<"0010", "">>,
        << <<"Rows", "Opening", "0010", "201_x000D_\n€£$", "">> >>)

SheetIrrbb ==
    TableSheet("K_68.00", "K_68.00 - EU IRRBB1", <<"a. EVE", "b. NII">>, <<"0010", "0020">>,
        << <<"Rows", "Parallel up", "0010", "301_x000D_\n€£$", "302_x000D_\nyyyy-mm-dd">> >>)

CodiXlsx(sheets) ==
    [ exists |-> TRUE,
      book   |-> [ name   |-> "20250519 Annotated Table Layout  CODISPILLAR3 4.1.xlsx",
                   sheets |-> <<TocSheet(<< <<"K_07.00", "Credit risk">> >>)>> \o sheets ] ]

IrrbbXlsx ==
    [ exists |-> TRUE,
      book   |-> [ name   |-> "20250519 Annotated Table Layout  IRRBBDISPILLAR3 4.1.xlsx",
                   sheets |-> <<TocSheet(<< <<"K_68.00", "IRRBB">> >>), SheetIrrbb>> ] ]

NoXlsx == [exists |-> FALSE, book |-> [name |-> "", sheets |-> <<>>]]

\* 1: both workbooks, two fact files, a fact without definition and a value
\*    that is no number;  2: the same workbooks, later values;  3: only the
\*    CODI workbook;  4: a datapoint defined in two templates;  5: no
\*    k_*.csv;  6: neither workbook.
Snapshots ==
    << [ books    |-> <<CodiXlsx(<<SheetCr1>>), IrrbbXlsx>>,
         data_dir |-> << FactFile("k_07.00.csv", << <<"dp201", "100">>, <<"dp999", "5">> >>),
                         FactFile("k_68.00.csv", << <<"dp301", "n/a">>, <<"dp302", "2024-12-31">> >>) >> ],
       [ books    |-> <<CodiXlsx(<<SheetCr1>>), IrrbbXlsx>>,
         data_dir |-> << FactFile("k_07.00.csv", << <<"dp201", "45.6">> >>) >> ],
       [ books    |-> <<CodiXlsx(<<SheetCr1>>), NoXlsx>>,
         data_dir |-> << FactFile("k_68.00.csv", << <<"dp301", "7">> >>) >> ],
       [ books    |-> <<CodiXlsx(<<SheetCr1, SheetCr8>>), NoXlsx>>,
         data_dir |-> << FactFile("k_07.00.csv", << <<"dp201", "-1500000">> >>) >> ],
       [ books    |-> <<CodiXlsx(<<SheetCr1>>), IrrbbXlsx>>,
         data_dir |-> << [name |-> "readme.csv", fields |-> <<>>, rows |-> <<>>] >> ],
       [ books    |-> <<NoXlsx, NoXlsx>>,
         data_dir |-> << FactFile("k_07.00.csv", << <<"dp201", "100">> >>) >> ] >>

\* What ingest computes for each snapshot before it touches the database.
Computed == [i \in 1..Len(Snapshots) |-> ComputeFrames(Snapshots[i])]

(***************************************************************************)
(* ingest.py: ingest(db_path), run after run on one database path.         *)
(***************************************************************************)
InitBuild ==
    /\ InitIngest
    /\ wb = FindisBook
    /\ mpc = "start"
    /\ all_records = <<>>
    /\ unique = <<>>
    /\ call = NoCall
    /\ InitRebuild

\* `python ingest.py` is started on the inputs as they are now.
StartRun ==
    /\ run.pc \in {"idle", "done", "failed"}
    /\ \E i \in 1..Len(Snapshots) : run' = [pc |-> "start", snap |-> i, frames |-> NoFrames, next |-> 0]
    /\ UNCHANGED <<dbfile, built>>

\* A variant in which the database file is removed before the inputs are
\* read.
InputsRaiseAfterUnlink ==
    /\ run.pc = "start" /\ Computed[run.snap].raised
    /\ run' = [run EXCEPT !.pc = "failed"]
    /\ dbfile' = NoFile
    /\ UNCHANGED built

\* build_mapping or load_raw_data raises: ingest is left before step 4.
InputsRaise ==
    /\ run.pc = "start" /\ Computed[run.snap].raised
    /\ run' = [run EXCEPT !.pc = "failed"]
    /\ UNCHANGED <<dbfile, built>>

\* Steps 1 to 3: mapping, raw and merged are computed.
ComputeMerged ==
    /\ run.pc = "start" /\ ~Computed[run.snap].raised
    /\ run' = [run EXCEPT !.pc = "merged", !.frames = Computed[run.snap].frames]
    /\ UNCHANGED <<dbfile, built>>

\* `if db_path.exists(): db_path.unlink()` and sqlite3.connect.
Unlink ==
    /\ run.pc = "merged"
    /\ dbfile' = [exists |-> TRUE, tables |-> <<>>]
    /\ run' = [run EXCEPT !.pc = "writing", !.next = 1]
    /\ UNCHANGED built

TableNames == <<"mapping", "raw_data", "mapped_data">>

\* frame.to_sql(name, con, if_exists="replace"): the table is dropped if it
\* exists, created and filled, and the statement committed.
ToSql(tables, name, frame) == (name :> frame) @@ tables

\* The three to_sql calls, one after the other.
WriteTable ==
    /\ run.pc = "writing" /\ run.next <= Len(TableNames)
    /\ dbfile' = [dbfile EXCEPT !.tables = ToSql(@, TableNames[run.next],
                                                 run.frames[TableNames[run.next]])]
    /\ run' = [run EXCEPT !.next = @ + 1]
    /\ UNCHANGED built

\* The indexes are created and the connection closed: the run is done.
CloseRun ==
    /\ run.pc = "writing" /\ run.next > Len(TableNames)
    /\ run' = [run EXCEPT !.pc = "done"]
    /\ built' = [snap |-> run.snap, frames |-> run.frames, before |-> built.snap]
    /\ UNCHANGED dbfile

NextBuild ==
    /\ \/ StartRun
       \/ InputsRaise
       \/ ComputeMerged
       \/ Unlink
       \/ WriteTable
       \/ CloseRun
    /\ UNCHANGED <<db, pc, cur, left, txn, pending, lock, latest, lastIngested, log, mapVars, call>>

SpecBuild == InitBuild /\ [][NextBuild]_vars

(***************************************************************************)
(* Properties of the whole-database rebuild, checked under SpecBuild.      *)
(***************************************************************************)
\* The tables of the database file as frames; a table that does not exist
\* has no rows.
TableRows(name) == IF name \in DOMAIN dbfile.tables THEN dbfile.tables[name] ELSE <<>>

\* C14: whenever no run is in its write step, the database file holds
\* exactly the three tables the most recent run that finished has computed
\* (no file before the first such run): a later successful run leaves
\* nothing of an earlier one, and a run that fails before the write step
\* leaves the file as it was.
C14_RebuildReplacesAll ==
    run.pc # "writing" =>
        IF built.snap = 0 THEN dbfile = NoFile
        ELSE /\ dbfile.exists
             /\ DOMAIN dbfile.tables = {"mapping", "raw_data", "mapped_data"}
             /\ \A name \in DOMAIN dbfile.tables : dbfile.tables[name] = built.frames[name]

\* A run on the second snapshot has finished after a run on the first: the
\* file holds the one fact of the second and none of the four of the first.
C14_Witness ==
    /\ run.pc = "done" /\ built.snap = 2 /\ built.before = 1
    /\ Len(TableRows("raw_data")) = 1
    /\ TableRows("raw_data")[1].factValue = ParseFloat("45.6")
    /\ Len(Computed[1].frames.raw_data) = 4

\* The data rows of the fact files as they are written, files in name order
\* and rows in file order: datapoint and value as text, the file's stem.
RECURSIVE RowsAsWritten(_)
RowsAsWritten(files) ==
    IF files = <<>> THEN <<>>
    ELSE [i \in 1..Len(Head(files).rows) |->
             [ datapoint |-> FieldOf(Head(files), Head(files).rows[i], "datapoint"),
               factValue |-> [text |-> FieldOf(Head(files), Head(files).rows[i], "factValue")],
               file      |-> Stem(Head(files).name) ]]
         \o RowsAsWritten(Tail(files))

\* C21: the raw facts a run has read are the data rows of the k_*.csv files
\* of the data directory, one per row, files in name order and rows in file
\* order, each with the file's stem, its datapoint and its value text exactly
\* as written (nothing dropped, trimmed or turned into a number).
C21_ReaderPassesThrough ==
    run.pc \in {"merged", "writing", "done"} =>
        run.frames.raw_data = RowsAsWritten(SortedFactFiles(Snapshots[run.snap].data_dir))

(***************************************************************************)
(* The two sheet parsers on their own, over families of sheets with three  *)
(* data columns: the position and content of the column-code row, the      *)
(* three label rows, and the rows of the data block vary.                  *)
(***************************************************************************)
BlankRow == <<"", "", "", "", "", "">>

\* A sheet of ingest_p3dh.py's layout with `pad` blank rows between the
\* title and the header rows; pad = -1 puts the header in the title row, so
\* that the column-code row is at index 4 + pad.
LayoutRows(pad, header_row, group_row, sub_row, code_row, data) ==
    (IF pad < 0 THEN << <<"K_61.00 - EU KM1", "", "">> \o header_row >>
     ELSE << <<"K_61.00 - EU KM1", "", "", "", "", "">> >>
          \o [i \in 1..pad |-> BlankRow]
          \o << <<"Columns", "", "">> \o header_row >>)
    \o << <<"", "", "">> \o group_row, <<"", "", "">> \o sub_row, <<"", "", "">> \o code_row >>
    \o data

\* The same data block in mapping.py's layout: labels in row index 4, codes
\* in row index 5.
SimpleRows(labels, code_row, data) ==
    << <<"K_61.00 - EU KM1", "", "", "", "", "">>, BlankRow, BlankRow,
       <<"Columns", "", "", "", "", "">>,
       <<"", "", "">> \o labels, <<"", "", "">> \o code_row >> \o data

DataRow1 == <<"Rows", "Total capital", "0010", "101_x000D_\n€£$", "102_x000D_\n%", "103">>

DataRow2 == <<"", "Tier 1 capital", "0020", "104", "", "105_x000D_\n#">>

\* Column-code rows and the rows above them: all codes, a code in column D
\* only among other text, a code anywhere but in column D, five digits,
\* labels; a sub-label row of years, which has a 4-digit text in column D.
CodeRows ==
    { <<"0010", "0020", "0030">>, <<"0010", "n/a", "0030">>, <<"Total", "0020", "0030">>,
      <<"00100", "00200", "00300">>, <<"a", "b", "c">> }

RowsAboveCodes == { <<"a. T", "b. T-1", "c. T-2">>, <<"2024", "2023 restated", "Change">>,
                    <<"Change", "2024", "2023">> }

Pads == {-1, 0, 3, 7, 8}

CodeRowSheets ==
    { LayoutRows(pad, <<"Amounts", "", "">>, <<"Gross", "", "Net">>, above, codes,
                 <<DataRow1, DataRow2>>) :
          pad \in Pads, above \in RowsAboveCodes, codes \in CodeRows }

\* The three label rows.
HeaderRowCells ==
    { <<"Amounts", "", "">>, <<"Amounts", "", "Ratios">>, <<"(q) sector", "", "Amounts">>,
      <<"", "", "">> }

LabelSheets ==
    { LayoutRows(0, h, g, sub, <<"0010", "0020", "0030">>, <<DataRow1>>) :
          h \in HeaderRowCells, g \in GroupRows \cup {<<"", "", "">>}, sub \in SubRows }

\* The rows of a data block: two rows with a row code, a section header
\* (no row code, though a cell holds digits), the sentinel row, a sentinel
\* row with text in column A and a row code, and a sentinel row of two
\* cells.
BlockRows ==
    { DataRow1, DataRow2,
      <<"", "Section", "", "555", "", "">>,
      <<"", "Main Property", "", "", "", "">>,
      <<"Rows", "Main Property", "0090", "901", "", "">>,
      <<"", "Main Property">> }

MaxBlock == 3

DataBlocks == UNION {[1..n -> BlockRows] : n \in 1..MaxBlock}

BlockSheets ==
    { LayoutRows(0, <<"Amounts", "", "">>, <<"Gross", "", "Net">>, <<"a. T", "b. T-1", "c. T-2">>,
                 <<"0010", "0020", "0030">>, data) : data \in DataBlocks }

SimpleSheets ==
    { SimpleRows(<<"a. T", "b. T-1", "c. T-2">>, <<"0010", "0020", "0030">>, data) :
          data \in DataBlocks }

\* Sheets whose rows differ in width: a data row of five datapoint cells
\* under header rows of three or four columns and a column-code row of two,
\* three or five, with a dimension-property column in the middle.
WideDataRow == <<"Rows", "Total capital", "0010", "101", "102", "103", "104", "105">>

WideHeaders == { <<"Amounts", "(q) sector", "Ratios">>, <<"Amounts", "", "Ratios", "Other">> }

WideGroups == { <<"Gross", "", "Net">>, <<"", "(q) dim">> }

WideCodes == { <<"0010", "0020", "0030">>, <<"0010", "0020">>,
               <<"0010", " 0020", "0030", "0040", "0050">> }

WideSheets ==
    { LayoutRows(0, h, g, <<"a. T", "b. T-1", "c. T-2">>, codes, <<WideDataRow>>) :
          h \in WideHeaders, g \in WideGroups, codes \in WideCodes }

SheetToc == << <<"K_61.00", "Key metrics">> >>

InitSheet ==
    /\ InitIngest
    /\ wb = FindisBook
    /\ mpc = "start"
    /\ all_records = <<>>
    /\ unique = <<>>
    /\ InitRebuild
    /\ \/ \E rows_raw \in CodeRowSheets \cup LabelSheets \cup BlockSheets \cup WideSheets :
              call = [fn |-> "_parse_mapping_sheet", args |-> <<rows_raw, "K_61.00", SheetToc>>,
                      ret |-> <<>>, returned |-> FALSE]
       \/ \E rows_raw \in SimpleSheets :
              call = [fn |-> "_parse_sheet", args |-> <<rows_raw, "K_61.00", SheetToc>>,
                      ret |-> <<>>, returned |-> FALSE]

\* _parse_mapping_sheet(ws, sheet_name, toc), with code_row_idx and col_info
\* as they are when it returns (the family has no sheet of fewer than 5
\* rows).
ApplyParseMappingSheet ==
    /\ call.fn = "_parse_mapping_sheet" /\ ~call.returned
    /\ call' = [call EXCEPT
           !.ret = [ code_row_idx |-> CodeRowIdx(call.args[1]),
                     col_info     |-> ColInfo(HeaderBlock(call.args[1])),
                     records      |-> ParseMappingSheet(call.args[1], call.args[2],
                                                        call.args[3]).records ],
           !.returned = TRUE]
    /\ UNCHANGED <<db, pc, cur, left, txn, pending, lock, latest, lastIngested, log, mapVars,
                   rebuildVars>>

\* mapping._parse_sheet(ws, sheet_name, toc).
ApplyParseSheet ==
    /\ call.fn = "_parse_sheet" /\ ~call.returned
    /\ call' = [call EXCEPT
           !.ret = [records |-> ParseSheet(call.args[1], call.args[2], call.args[3]).records],
           !.returned = TRUE]
    /\ UNCHANGED <<db, pc, cur, left, txn, pending, lock, latest, lastIngested, log, mapVars,
                   rebuildVars>>

NextSheet == ApplyParseMappingSheet \/ ApplyParseSheet

SpecSheet == InitSheet /\ [][NextSheet]_vars

(***************************************************************************)
(* Properties of the sheet parsers, checked under SpecSheet.               *)
(***************************************************************************)
ParsedLayout == call.fn = "_parse_mapping_sheet" /\ call.returned

\* A row all of whose cells from column D on are 4-digit codes (cells left
\* blank apart).
IsCodeRow(row) ==
    /\ Len(row) > 3
    /\ IsCode4(CellStr(row, 3))
    /\ \A ci \in 4..(Len(row) - 1) : CellStr(row, ci) = "" \/ IsCode4(CellStr(row, ci))

\* The column-code row as C16 describes it.
FullCodeRowIdx(rows_raw) ==
    Let({ri \in 3..(Min(Len(rows_raw), 12) - 1) : IsCodeRow(RowAt(rows_raw, ri))}, LAMBDA found :
        IF found # {} THEN MinOf(found)
        ELSE IF Len(rows_raw) > 7 THEN 7 ELSE Len(rows_raw) - 1)

\* C16: the column-code row is the first row of index 3 to 11 whose cells
\* from column D on are 4-digit codes, a row with only some such cells not
\* being selected; without such a row it is row index 7, or the last row of
\* a sheet of at most 7 rows.
C16_CodeRowHasOnlyCodes ==
    ParsedLayout => call.ret.code_row_idx = FullCodeRowIdx(call.args[1])

\* The cell of the k-th row above the column-code row (3: primary header,
\* 2: group label, 1: sub-label, 0: the code) in data column c (0: column D).
LabelCell(k, c) == CellStr(RowAt(call.args[1], call.ret.code_row_idx - k), c + 3)

DataColumns == 0..(Len(call.ret.col_info) - 1)

IsDimension(c) == StartsWith(LabelCell(2, c), "(q") \/ StartsWith(LabelCell(3, c), "(q")

\* The label of row k carried forward into column c across blank cells.
CarriedLabel(k, c) ==
    Let({d \in 0..c : LabelCell(k, d) # ""}, LAMBDA labelled :
        IF labelled = {} THEN "" ELSE LabelCell(k, MaxOf(labelled)))

\* The same, the labels of dimension-property columns not being carried.
CarriedDataLabel(k, c) ==
    Let({d \in 0..c : LabelCell(k, d) # "" /\ ~IsDimension(d)}, LAMBDA labelled :
        IF labelled = {} THEN "" ELSE LabelCell(k, MaxOf(labelled)))

FirstNonEmpty(a, b, c) == IF a # "" THEN a ELSE IF b # "" THEN b ELSE c

\* C17 as stated: col_label is the first non-empty of (sub-label, group
\* label, primary header) and col_parent the group label under a sub-label,
\* else the primary header under a group label, else empty, header and
\* group label being the values carried forward across blank cells.
C17_LabelFromCarriedLabels ==
    ParsedLayout =>
        \A c \in DataColumns :
            ~call.ret.col_info[c + 1].skip =>
                /\ call.ret.col_info[c + 1].col_label =
                       FirstNonEmpty(LabelCell(1, c), CarriedLabel(2, c), CarriedLabel(3, c))
                /\ call.ret.col_info[c + 1].col_parent =
                       IF LabelCell(1, c) # "" THEN CarriedLabel(2, c)
                       ELSE IF CarriedLabel(2, c) # "" THEN CarriedLabel(3, c) ELSE ""

\* C17, amended: a column that is no dimension-property column has as
\* col_label the first non-empty of its own sub-label, group-label and
\* primary-header cells, and as col_parent the carried group label when it
\* has a sub-label, else the carried primary header when its own group-label
\* cell is not blank, else empty; labels are carried across blank cells from
\* the nearest column to the left that is no dimension-property column.
C17_LabelFromOwnCells ==
    ParsedLayout =>
        \A c \in DataColumns :
            ~IsDimension(c) =>
                /\ ~call.ret.col_info[c + 1].skip
                /\ call.ret.col_info[c + 1].col_label =
                       FirstNonEmpty(LabelCell(1, c), LabelCell(2, c), LabelCell(3, c))
                /\ call.ret.col_info[c + 1].col_parent =
                       IF LabelCell(1, c) # "" THEN CarriedDataLabel(2, c)
                       ELSE IF LabelCell(2, c) # "" THEN CarriedDataLabel(3, c) ELSE ""

\* Group labels "Gross", "", "Net" under the header "Amounts", a sub-label
\* in the second column only: the columns are labelled Gross, b. T-1, Net
\* with the parents Amounts, Gross, Amounts.
C17_Witness ==
    /\ ParsedLayout /\ call.ret.code_row_idx = 4
    /\ RowAt(call.args[1], 1) = <<"Columns", "", "", "Amounts", "", "">>
    /\ RowAt(call.args[1], 2) = <<"", "", "", "Gross", "", "Net">>
    /\ RowAt(call.args[1], 3) = <<"", "", "", "", "b. T-1", "">>
    /\ [c \in 1..3 |-> call.ret.col_info[c].col_label] = <<"Gross", "b. T-1", "Net">>
    /\ [c \in 1..3 |-> call.ret.col_info[c].col_parent] = <<"Amounts", "Gross", "Amounts">>

\* Column c lies under a dimension-property label: its own group or header
\* cell, or the one carried into it across blank cells, begins with "(q".
UnderDimensionLabel(c) ==
    StartsWith(CarriedLabel(2, c), "(q") \/ StartsWith(CarriedLabel(3, c), "(q")

\* The records of data column c, for a column whose code no other column has.
HasOwnCode(c) ==
    LabelCell(0, c) # "" /\ \A d \in DataColumns \ {c} : LabelCell(0, d) # LabelCell(0, c)

RecordsOfColumn(c) ==
    SelectSeq(call.ret.records, LAMBDA r : r.col_code = LabelCell(0, c))

\* C18: no record belongs to a column under a label that begins with "(q",
\* be it under it through a blank (merged) cell only, and no data column has
\* such a label as its col_header or col_group.
C18_DimensionColumnsCarryNothing ==
    ParsedLayout =>
        /\ \A c \in DataColumns :
               (UnderDimensionLabel(c) /\ HasOwnCode(c)) => RecordsOfColumn(c) = <<>>
        /\ \A i \in 1..Len(call.ret.records) :
               /\ ~StartsWith(call.ret.records[i].col_header, "(q")
               /\ ~StartsWith(call.ret.records[i].col_group, "(q")

ParsedSimple == call.fn = "_parse_sheet" /\ call.returned

\* The first row of the data block: after the column-code row, or row
\* index 6 for mapping._parse_sheet.
DataStart == IF call.fn = "_parse_sheet" THEN 6 ELSE call.ret.code_row_idx + 1

\* The first row from DataStart on whose row label is the sentinel, the
\* sheet's length when there is none.
BlockEnd ==
    MinOf({ri \in DataStart..(Len(call.args[1]) - 1) :
               CellStr(RowAt(call.args[1], ri), 1) = "Main Property"}
          \cup {Len(call.args[1])})

\* (row_label, row_code, datapoint) of the datapoint cells of a row, from
\* column D on.
RECURSIVE RowDatapoints(_, _)
RowDatapoints(row, ci) ==
    IF ci >= Len(row) THEN <<>>
    ELSE (IF ParseDpCell(row[ci + 1]).none THEN <<>>
          ELSE << <<CellStr(row, 1), CellStr(row, 2), ParseDpCell(row[ci + 1]).dp_id>> >>)
         \o RowDatapoints(row, ci + 1)

\* What the rows ri .. end - 1 that have a row code give.
RECURSIVE BlockDatapoints(_, _, _)
BlockDatapoints(rows_raw, ri, end) ==
    IF ri >= end THEN <<>>
    ELSE (IF CellStr(RowAt(rows_raw, ri), 2) = "" THEN <<>>
          ELSE RowDatapoints(RowAt(rows_raw, ri), 3))
         \o BlockDatapoints(rows_raw, ri + 1, end)

RecordDatapoints ==
    [i \in 1..Len(call.ret.records) |->
        <<call.ret.records[i].row_label, call.ret.records[i].row_code,
          call.ret.records[i].datapoint>>]

\* Every column of the sheet is a data column (none is skipped).
AllColumnsKept ==
    call.fn = "_parse_mapping_sheet" => \A c \in DataColumns : ~call.ret.col_info[c + 1].skip

\* C19: the records come from the rows after the column-code row (from row
\* index 6 on for mapping._parse_sheet) and before the first row whose row
\* label is "Main Property", the rows without row code giving nothing and
\* not ending the block.
C19_BlockEndsAtSentinel ==
    ((ParsedLayout \/ ParsedSimple) /\ AllColumnsKept) =>
        RecordDatapoints = BlockDatapoints(call.args[1], DataStart, BlockEnd)

\* The fields the two parsers have in common.
SharedFields(rec) ==
    [ template  |-> rec.template,  datapoint |-> rec.datapoint,
      row_code  |-> rec.row_code,  row_label |-> rec.row_label,
      col_code  |-> rec.col_code,  col_label |-> rec.col_label,
      unit      |-> rec.unit ]

SharedFieldsOf(records) == {SharedFields(records[i]) : i \in 1..Len(records)}

\* C23: on every sheet, the definitions mapping._parse_sheet extracts and
\* the definitions ingest_p3dh._parse_mapping_sheet extracts are the same
\* in template, datapoint, row code, row label, column code, column label
\* and unit.
C23_ParsersAgreeOnSheet ==
    (ParsedLayout \/ ParsedSimple) =>
        SharedFieldsOf(ParseSheet(call.args[1], call.args[2], call.args[3]).records)
            = SharedFieldsOf(ParseMappingSheet(call.args[1], call.args[2], call.args[3]).records)

\* The width of the header block: the longest of the column-code row and
\* the three rows above it.
SheetWidth == MaxOf({Len(RowAt(call.args[1], call.ret.code_row_idx - k)) : k \in 0..3})

\* The records emitted for a datapoint under a row code.
RecordsFor(dp_id, row_code) ==
    {i \in 1..Len(call.ret.records) :
        call.ret.records[i].datapoint = dp_id /\ call.ret.records[i].row_code = row_code}

\* C29: a record emitted for the datapoint cell at column index ci of a data
\* row carries the code of the column-code row's cell ci and the label of
\* the label cells at ci, also to the right of a dimension-property column;
\* the cell is within the width of the header block and in no
\* dimension-property column.  (No datapoint stands in two columns of a row
\* in these sheets.)
C29_ColumnsStayAligned ==
    ParsedLayout =>
        \A ri \in (call.ret.code_row_idx + 1)..(Len(call.args[1]) - 1) :
            \A ci \in 3..(Len(RowAt(call.args[1], ri)) - 1) :
                Let(ParseDpCell(RowAt(call.args[1], ri)[ci + 1]), LAMBDA dp :
                    ~dp.none =>
                        \A i \in RecordsFor(dp.dp_id, CellStr(RowAt(call.args[1], ri), 2)) :
                            /\ ci < SheetWidth
                            /\ ~IsDimension(ci - 3)
                            /\ call.ret.records[i].col_code = LabelCell(0, ci - 3)
                            /\ call.ret.records[i].col_label =
                                   FirstNonEmpty(LabelCell(1, ci - 3), LabelCell(2, ci - 3),
                                                 LabelCell(3, ci - 3)))

\* Header rows of three columns, the second a dimension-property column,
\* and a data row with the datapoints 101 to 105 in columns D to H: records
\* for 101 and 103 with the codes and labels of columns D and F, none for
\* 102, none for 104 and 105.
C29_Witness ==
    /\ ParsedLayout
    /\ RowAt(call.args[1], 1) = <<"Columns", "", "", "Amounts", "(q) sector", "Ratios">>
    /\ RowAt(call.args[1], 4) = <<"", "", "", "0010", "0020", "0030">>
    /\ RowAt(call.args[1], 5) = WideDataRow
    /\ SheetWidth = 6
    /\ [i \in 1..Len(call.ret.records) |->
           <<call.ret.records[i].datapoint, call.ret.records[i].col_code,
             call.ret.records[i].col_label>>]
         = << <<"dp101", "0010", "a. T">>, <<"dp103", "0030", "c. T-2">> >>

(***************************************************************************)
(* The two datapoint cell parsers on their own, over a family of cells:    *)
(* something or nothing before the digits, digits or none, a separator,    *)
(* and up to two unit markers in either order.                             *)
(***************************************************************************)
CellLeads == {"", " ", "x"}

CellDigits == {"", "7", "3530270"}

CellSeparators == {"", "_x000D_\n"}

CellMarkers == {UNIT_MAP[i][1] : i \in 1..Len(UNIT_MAP)} \cup {"", "EUR"}

DpCells ==
    { l \o d \o x \o m1 \o m2 :
          l \in CellLeads, d \in CellDigits, x \in CellSeparators,
          m1 \in CellMarkers, m2 \in CellMarkers }

InitDp ==
    /\ InitIngest
    /\ wb = FindisBook
    /\ mpc = "start"
    /\ all_records = <<>>
    /\ unique = <<>>
    /\ InitRebuild
    /\ \E fn \in {"_parse_dp_cell", "mapping._parse_dp_cell"} : \E val \in DpCells :
           call = [fn |-> fn, args |-> <<val>>, ret |-> <<>>, returned |-> FALSE]

\* ingest_p3dh._parse_dp_cell(val)
ApplyParseDpCell ==
    /\ call.fn = "_parse_dp_cell" /\ ~call.returned
    /\ call' = [call EXCEPT !.ret = ParseDpCell(call.args[1]), !.returned = TRUE]
    /\ UNCHANGED <<db, pc, cur, left, txn, pending, lock, latest, lastIngested, log, mapVars,
                   rebuildVars>>

\* mapping._parse_dp_cell(cell_value)
ApplyMappingParseDpCell ==
    /\ call.fn = "mapping._parse_dp_cell" /\ ~call.returned
    /\ call' = [call EXCEPT !.ret = MappingParseDpCell(call.args[1]), !.returned = TRUE]
    /\ UNCHANGED <<db, pc, cur, left, txn, pending, lock, latest, lastIngested, log, mapVars,
                   rebuildVars>>

NextDp == ApplyParseDpCell \/ ApplyMappingParseDpCell

SpecDp == InitDp /\ [][NextDp]_vars

(***************************************************************************)
(* Properties of the datapoint cell parsers, checked under SpecDp.         *)
(***************************************************************************)
ParsedCell == call.fn \in {"_parse_dp_cell", "mapping._parse_dp_cell"} /\ call.returned

\* The cell's text without the blanks at its ends.
TrimmedCell == CHOOSE t \in {Sub(call.args[1], i, j) : i \in 1..(Len(call.args[1]) + 1),
                                                        j \in 0..Len(call.args[1])} :
                   IsTrimOf(t, call.args[1])

\* The length of the longest run of digits the text starts with.
LeadingDigits(text) == MaxOf({n \in 0..Len(text) : \A i \in 1..n : IsDigit(Char(text, i))})

\* The markers of UNIT_MAP (by position) found after the leading digits.
MarkersIn(text) ==
    {i \in 1..Len(UNIT_MAP) :
        Contains(Sub(text, LeadingDigits(text) + 1, Len(text)), UNIT_MAP[i][1])}

\* The datapoint id part of C20: none for a cell whose trimmed text does
\* not start with a digit, else "dp" and the leading digits.
DatapointIdAsStated ==
    Let(TrimmedCell, LAMBDA text :
        IF LeadingDigits(text) = 0 THEN call.ret.none
        ELSE /\ ~call.ret.none
             /\ call.ret.dp_id = "dp" \o Sub(text, 1, LeadingDigits(text)))

\* C20 as stated: the id as above, and every marker found in the remainder
\* gives its unit, whatever else the cell holds; the unit is empty when no
\* marker is found.
C20_EveryMarkerGivesItsUnit ==
    ParsedCell =>
        /\ DatapointIdAsStated
        /\ ~call.ret.none =>
               Let(MarkersIn(TrimmedCell), LAMBDA found :
                   /\ \A i \in found : call.ret.unit = UNIT_MAP[i][2]
                   /\ found = {} => call.ret.unit = "")

\* C20, amended: the id as above, and the unit is that of the first of the
\* markers monetary, percentage, count, date (in this order) found in the
\* remainder, wherever it stands in the cell; empty when none is found.
C20_FirstMarkerGivesUnit ==
    ParsedCell =>
        /\ DatapointIdAsStated
        /\ ~call.ret.none =>
               Let(MarkersIn(TrimmedCell), LAMBDA found :
                   call.ret.unit = IF found = {} THEN "" ELSE UNIT_MAP[MinOf(found)][2])

\* A cell with the count marker before the percentage marker: the id is the
\* leading digits and the unit is percentage.
C20_Witness ==
    /\ ParsedCell /\ call.fn = "_parse_dp_cell"
    /\ call.args[1] = " 3530270_x000D_\n#%"
    /\ call.ret = [none |-> FALSE, dp_id |-> "dp3530270", unit |-> "percentage"]

=============================================================================
